---- MODULE Spec2Model ----
(***************************************************************************)
(* Model of the developer knowledge-graph server (src/index.js).           *)
(*                                                                         *)
(* The persisted graph (memory.json) is the variable `graph`: a record of  *)
(* two JavaScript arrays, modelled as sequences so that insertion order    *)
(* and duplicates are visible.  Every KnowledgeGraphManager method is a    *)
(* pure operator from a graph to an outcome record                         *)
(*    [ok, graph, ret, error]                                              *)
(* (ok = FALSE models a thrown Error; `graph` is then the persisted graph  *)
(* at the moment of the throw).  An action loads `graph`, applies the      *)
(* method and stores the outcome.  Strings are TLA+ strings; substring,    *)
(* lower-casing and split are computed character by character.             *)
(***************************************************************************)
EXTENDS Integers, Sequences, FiniteSets, TLC

VARIABLES
    graph,      \* contents of MEMORY_FILE_PATH: [entities, relations]
    sessionStates, \* contents of SESSIONS_FILE_PATH: session id -> array of records
    sessionKeys, \* the session ids in the order of the keys of that file
    clock,      \* the time Date reads
    inflight,   \* the calls between their first await and their return, per client
    last,       \* the last call made and its outcome: [op, args, ok, ret, error]
    repeatOf    \* history: the arguments of the call before `last` when `last` is a
                \* status/priority setter called twice in a row, <<>> otherwise

vars == <<graph, sessionStates, sessionKeys, clock, inflight, last, repeatOf>>

(***************************************************************************)
(* Bounds of the model                                                     *)
(***************************************************************************)
MaxBatch == 2       \* longest array passed to a batch operation
MaxEntities == 7    \* createEntities is offered up to this length of graph.entities
MaxRelations == 2   \* createRelations is offered up to this length of graph.relations
MaxCalls == 2       \* clients that may have a call in flight at the same time
MaxClock == 2       \* latest time that Date reads
MaxLog == 6         \* cap on the number of records of a session
MaxStages == 4      \* cap on the records of a session whose stages are revised
MaxRecords == 3     \* cap on the records of all sessions that load contexts
MaxStarted == 2     \* latest time at which an overlapping call starts a session
MaxFlight == 2      \* cap on the records of all sessions of overlapping calls

(***************************************************************************)
(* Vocabulary registry                                                     *)
(***************************************************************************)
VALID_ENTITY_TYPES ==
    << "project", "component", "feature", "issue", "task", "technology",
       "decision", "milestone", "environment", "documentation",
       "requirement", "status", "priority" >>

VALID_RELATION_TYPES ==
    << "depends_on", "implements", "blocked_by", "uses", "part_of",
       "contains", "related_to", "affects", "resolves", "documented_in",
       "decided_in", "required_by", "has_status", "has_priority",
       "depends_on_milestone", "precedes", "tested_in" >>

VALID_STATUS_VALUES == << "inactive", "active", "complete" >>

VALID_PRIORITY_VALUES == << "low", "high" >>

(***************************************************************************)
(* JavaScript values and array helpers                                     *)
(***************************************************************************)
Null == "<null>"
Undefined == "<undefined>"
NoError == [kind |-> "none", value |-> ""]

\* truthiness of a string-valued expression
Truthy(x) == x # Undefined /\ x # Null /\ x # ""

\* Array.prototype.includes
ArrayIncludes(arr, x) == \E i \in 1..Len(arr) : arr[i] = x

\* Array.prototype.some
Some(arr, P(_)) == \E i \in 1..Len(arr) : P(arr[i])

\* index of the first element satisfying P, 0 when there is none
FirstIndex(arr, P(_)) ==
    IF Some(arr, P)
    THEN CHOOSE i \in 1..Len(arr) : P(arr[i]) /\ \A j \in 1..(i - 1) : ~P(arr[j])
    ELSE 0

\* String.prototype.includes
StrIncludes(h, n) ==
    \E i \in 1..(Len(h) - Len(n) + 1) : SubSeq(h, i, i + Len(n) - 1) = n

UpperLetters == "ABCDEFGHIJKLMNOPQRSTUVWXYZ"

LowerLetters == "abcdefghijklmnopqrstuvwxyz"

LowerChar(c) ==
    IF \E i \in 1..Len(UpperLetters) : SubSeq(UpperLetters, i, i) = c
    THEN LET i == CHOOSE i \in 1..Len(UpperLetters) : SubSeq(UpperLetters, i, i) = c
         IN SubSeq(LowerLetters, i, i)
    ELSE c

\* String.prototype.toLowerCase
RECURSIVE ToLowerCase(_)
ToLowerCase(s) ==
    IF Len(s) = 0 THEN s
    ELSE LowerChar(SubSeq(s, 1, 1)) \o ToLowerCase(SubSeq(s, 2, Len(s)))

\* position of the first ':' of s at or after position from, 0 if none
ColonAt(s, from) ==
    IF \E i \in from..Len(s) : SubSeq(s, i, i) = ":"
    THEN CHOOSE i \in from..Len(s) :
            SubSeq(s, i, i) = ":" /\ \A j \in from..(i - 1) : SubSeq(s, j, j) # ":"
    ELSE 0

\* s.split(':')[1]
SplitColon1(s) ==
    LET c1 == ColonAt(s, 1) IN
    IF c1 = 0 THEN Undefined
    ELSE LET c2 == ColonAt(s, c1 + 1) IN
         IF c2 = 0 THEN SubSeq(s, c1 + 1, Len(s)) ELSE SubSeq(s, c1 + 1, c2 - 1)

validateEntityType(entityType) == ArrayIncludes(VALID_ENTITY_TYPES, entityType)

validateRelationType(relationType) == ArrayIncludes(VALID_RELATION_TYPES, relationType)

Entity(n, t, o) == [name |-> n, entityType |-> t, observations |-> o]

Relation(f, t, rt) == [from |-> f, to |-> t, relationType |-> rt]

EmptyGraph == [entities |-> <<>>, relations |-> <<>>]

Ok(g, r) == [ok |-> TRUE, graph |-> g, ret |-> r, error |-> NoError]

Throw(g, k, v) == [ok |-> FALSE, graph |-> g, ret |-> Undefined,
                   error |-> [kind |-> k, value |-> v]]

HasEntity(g, n) == Some(g.entities, LAMBDA e : e.name = n)

(***************************************************************************)
(* KnowledgeGraphManager                                                   *)
(***************************************************************************)
StatusEntity(v) == Entity("status:" \o v, "status", << "A " \o v \o " status value" >>)

PriorityEntity(v) == Entity("priority:" \o v, "priority", << "A " \o v \o " priority value" >>)

initializeStatusAndPriority(g) ==
    LET statuses == [i \in 1..Len(VALID_STATUS_VALUES) |-> StatusEntity(VALID_STATUS_VALUES[i])]
        priorities == [i \in 1..Len(VALID_PRIORITY_VALUES) |-> PriorityEntity(VALID_PRIORITY_VALUES[i])]
        Missing(s) == ~Some(g.entities,
                            LAMBDA e : e.name = s.name /\ e.entityType = s.entityType)
    IN Ok([g EXCEPT !.entities = @ \o SelectSeq(statuses, Missing)
                                   \o SelectSeq(priorities, Missing)], Undefined)

\* mutant: the name of the status entity is returned whole, without the split
getEntityStatusWholeName(g, entityName) ==
    LET i == FirstIndex(g.relations,
                        LAMBDA r : r.from = entityName /\ r.relationType = "has_status")
    IN IF i # 0 THEN g.relations[i].to ELSE Null

getEntityStatus(g, entityName) ==
    LET i == FirstIndex(g.relations,
                        LAMBDA r : r.from = entityName /\ r.relationType = "has_status")
    IN IF i # 0 THEN SplitColon1(g.relations[i].to) ELSE Null

getEntityPriority(g, entityName) ==
    LET i == FirstIndex(g.relations,
                        LAMBDA r : r.from = entityName /\ r.relationType = "has_priority")
    IN IF i # 0 THEN SplitColon1(g.relations[i].to) ELSE Null

\* mutant: only the relation to the same status value is removed before the push
setEntityStatusKeepOthers(g, entityName, statusValue) ==
    IF ~ArrayIncludes(VALID_STATUS_VALUES, statusValue)
    THEN Throw(g, "InvalidStatusValue", statusValue)
    ELSE LET new == Relation(entityName, "status:" \o statusValue, "has_status")
         IN Ok([g EXCEPT !.relations = Append(SelectSeq(@, LAMBDA r : r # new), new)],
               Undefined)

setEntityStatus(g, entityName, statusValue) ==
    IF ~ArrayIncludes(VALID_STATUS_VALUES, statusValue)
    THEN Throw(g, "InvalidStatusValue", statusValue)
    ELSE LET kept == SelectSeq(g.relations,
                        LAMBDA r : ~(r.from = entityName /\ r.relationType = "has_status"))
         IN Ok([g EXCEPT !.relations =
                    Append(kept, Relation(entityName, "status:" \o statusValue, "has_status"))],
               Undefined)

\* mutant: the has_priority relations of every entity are removed
setEntityPriorityDropAll(g, entityName, priorityValue) ==
    IF ~ArrayIncludes(VALID_PRIORITY_VALUES, priorityValue)
    THEN Throw(g, "InvalidPriorityValue", priorityValue)
    ELSE LET kept == SelectSeq(g.relations, LAMBDA r : r.relationType # "has_priority")
         IN Ok([g EXCEPT !.relations =
                    Append(kept, Relation(entityName, "priority:" \o priorityValue, "has_priority"))],
               Undefined)

\* mutant: the has_priority relations the entity already has are kept
setEntityPriorityKeepOthers(g, entityName, priorityValue) ==
    IF ~ArrayIncludes(VALID_PRIORITY_VALUES, priorityValue)
    THEN Throw(g, "InvalidPriorityValue", priorityValue)
    ELSE LET new == Relation(entityName, "priority:" \o priorityValue, "has_priority")
         IN Ok([g EXCEPT !.relations = Append(SelectSeq(@, LAMBDA r : r # new), new)],
               Undefined)

setEntityPriority(g, entityName, priorityValue) ==
    IF ~ArrayIncludes(VALID_PRIORITY_VALUES, priorityValue)
    THEN Throw(g, "InvalidPriorityValue", priorityValue)
    ELSE LET kept == SelectSeq(g.relations,
                        LAMBDA r : ~(r.from = entityName /\ r.relationType = "has_priority"))
         IN Ok([g EXCEPT !.relations =
                    Append(kept, Relation(entityName, "priority:" \o priorityValue, "has_priority"))],
               Undefined)

\* mutant: entities of unrecognised type are dropped and the rest is created
createEntitiesSkipInvalid(g, entities) ==
    LET newEntities == SelectSeq(entities,
                                 LAMBDA e : validateEntityType(e.entityType)
                                            /\ ~HasEntity(g, e.name))
    IN Ok([g EXCEPT !.entities = @ \o newEntities], newEntities)

createEntities(g, entities) ==
    LET bad == FirstIndex(entities, LAMBDA e : ~validateEntityType(e.entityType)) IN
    IF bad # 0
    THEN Throw(g, "InvalidEntityType", entities[bad].entityType)
    ELSE LET newEntities == SelectSeq(entities, LAMBDA e : ~HasEntity(g, e.name))
         IN Ok([g EXCEPT !.entities = @ \o newEntities], newEntities)

\* mutant: the endpoints are not looked up
createRelationsUnchecked(g, relations) ==
    LET bad == FirstIndex(relations, LAMBDA r : ~validateRelationType(r.relationType)) IN
    IF bad # 0
    THEN Throw(g, "InvalidRelationType", relations[bad].relationType)
    ELSE LET newRelations ==
                SelectSeq(relations,
                          LAMBDA r : ~Some(g.relations,
                                           LAMBDA x : x.from = r.from /\ x.to = r.to
                                                      /\ x.relationType = r.relationType))
         IN Ok([g EXCEPT !.relations = @ \o newRelations], newRelations)

createRelations(g, relations) ==
    LET bad == FirstIndex(relations, LAMBDA r : ~validateRelationType(r.relationType))
        miss == FirstIndex(relations,
                           LAMBDA r : ~HasEntity(g, r.from) \/ ~HasEntity(g, r.to))
    IN
    IF bad # 0
    THEN Throw(g, "InvalidRelationType", relations[bad].relationType)
    ELSE IF miss # 0
    THEN IF ~HasEntity(g, relations[miss].from)
         THEN Throw(g, "SourceEntityMissing", relations[miss].from)
         ELSE Throw(g, "TargetEntityMissing", relations[miss].to)
    ELSE LET newRelations ==
                SelectSeq(relations,
                          LAMBDA r : ~Some(g.relations,
                                           LAMBDA x : x.from = r.from /\ x.to = r.to
                                                      /\ x.relationType = r.relationType))
         IN Ok([g EXCEPT !.relations = @ \o newRelations], newRelations)

\* mutant: only the relations leaving a deleted entity are removed
deleteEntitiesFromOnly(g, entityNames) ==
    Ok([entities |-> SelectSeq(g.entities, LAMBDA e : ~ArrayIncludes(entityNames, e.name)),
        relations |-> SelectSeq(g.relations, LAMBDA r : ~ArrayIncludes(entityNames, r.from))],
       Undefined)

deleteEntities(g, entityNames) ==
    Ok([entities |-> SelectSeq(g.entities, LAMBDA e : ~ArrayIncludes(entityNames, e.name)),
        relations |-> SelectSeq(g.relations,
                                LAMBDA r : ~ArrayIncludes(entityNames, r.from)
                                           /\ ~ArrayIncludes(entityNames, r.to))],
       Undefined)

deleteRelations(g, relations) ==
    Ok([g EXCEPT !.relations =
            SelectSeq(@, LAMBDA r : ~Some(relations,
                                         LAMBDA d : r.from = d.from /\ r.to = d.to
                                                    /\ r.relationType = d.relationType))],
       Undefined)

\* observations.map(o => ...): the batch is applied element by element to the
\* loaded graph; a missing entity throws before saveGraph, so nothing is stored
RECURSIVE addObservationsFrom(_, _, _, _)
addObservationsFrom(g0, g, observations, results) ==
    IF observations = <<>> THEN Ok(g, results)
    ELSE LET o == Head(observations)
             i == FirstIndex(g.entities, LAMBDA e : e.name = o.entityName)
         IN IF i = 0
            THEN Throw(g0, "EntityNotFound", o.entityName)
            ELSE LET RECURSIVE Push(_, _, _)
                     \* contents.filter(c => !entity.observations.includes(c)) is
                     \* computed before the push, on the list as it was
                     Push(obs, contents, added) ==
                        IF contents = <<>> THEN <<obs, added>>
                        ELSE IF ArrayIncludes(g.entities[i].observations, Head(contents))
                             THEN Push(obs, Tail(contents), added)
                             ELSE Push(Append(obs, Head(contents)), Tail(contents),
                                       Append(added, Head(contents)))
                     pushed == Push(g.entities[i].observations, o.contents, <<>>)
                 IN addObservationsFrom(
                        g0,
                        [g EXCEPT !.entities[i].observations = pushed[1]],
                        Tail(observations),
                        Append(results, [entityName |-> o.entityName,
                                         addedObservations |-> pushed[2]]))

\* a method that skips the elements whose entity is missing
addObservationsSkipMissing(g, observations) ==
    addObservationsFrom(g, g, SelectSeq(observations, LAMBDA o : HasEntity(g, o.entityName)),
                        <<>>)

addObservations(g, observations) == addObservationsFrom(g, g, observations, <<>>)

searchNodes(g, query) ==
    LET q == ToLowerCase(query)
        filteredEntities ==
            SelectSeq(g.entities,
                      LAMBDA e : \/ StrIncludes(ToLowerCase(e.name), q)
                                 \/ StrIncludes(ToLowerCase(e.entityType), q)
                                 \/ Some(e.observations,
                                         LAMBDA o : StrIncludes(ToLowerCase(o), q)))
        filteredEntityNames == { filteredEntities[i].name : i \in 1..Len(filteredEntities) }
    IN [entities |-> filteredEntities,
        relations |-> SelectSeq(g.relations,
                                LAMBDA r : r.from \in filteredEntityNames
                                           /\ r.to \in filteredEntityNames)]

\* mutant: a relation is returned as soon as its 'from' is among the names
openNodesFromOnly(g, names) ==
    LET filteredEntities == SelectSeq(g.entities, LAMBDA e : ArrayIncludes(names, e.name))
        filteredEntityNames == { filteredEntities[i].name : i \in 1..Len(filteredEntities) }
    IN [entities |-> filteredEntities,
        relations |-> SelectSeq(g.relations, LAMBDA r : r.from \in filteredEntityNames)]

openNodes(g, names) ==
    LET filteredEntities == SelectSeq(g.entities, LAMBDA e : ArrayIncludes(names, e.name))
        filteredEntityNames == { filteredEntities[i].name : i \in 1..Len(filteredEntities) }
    IN [entities |-> filteredEntities,
        relations |-> SelectSeq(g.relations,
                                LAMBDA r : r.from \in filteredEntityNames
                                           /\ r.to \in filteredEntityNames)]

(***************************************************************************)
(* getProjectStatus                                                        *)
(***************************************************************************)
RECURSIVE Flatten(_)
Flatten(arrays) ==
    IF arrays = <<>> THEN <<>> ELSE Head(arrays) \o Flatten(Tail(arrays))

\* the body of "for (const relation of graph.relations)": the entity at the
\* other end of the relations that touch name, one per relation, in the
\* order of the relations
RelatedEntities(g, name) ==
    Flatten([i \in 1..Len(g.relations) |->
        IF g.relations[i].from = name \/ g.relations[i].to = name
        THEN LET j == FirstIndex(g.entities,
                         LAMBDA e : \/ (g.relations[i].from = name
                                        /\ e.name = g.relations[i].to)
                                    \/ (g.relations[i].to = name
                                        /\ e.name = g.relations[i].from))
             IN IF j = 0 THEN <<>> ELSE << g.entities[j] >>
        ELSE <<>>])

OfType(entities, entityType) == SelectSeq(entities, LAMBDA e : e.entityType = entityType)

\* list.push(e) for each e of more whose name is not in the list yet
RECURSIVE PushNew(_, _)
PushNew(list, more) ==
    IF more = <<>> THEN list
    ELSE PushNew(IF Some(list, LAMBDA x : x.name = Head(more).name)
                 THEN list ELSE Append(list, Head(more)),
                 Tail(more))

\* the entities related to the components of the project
ComponentRelated(g, projectName) ==
    Flatten([c \in 1..Len(OfType(RelatedEntities(g, projectName), "component")) |->
        RelatedEntities(g, OfType(RelatedEntities(g, projectName), "component")[c].name)])

\* components, features, issues, tasks and milestones as the two loops over
\* the relations leave them
ProjectLists(g, projectName) ==
    [components |-> OfType(RelatedEntities(g, projectName), "component"),
     features |-> PushNew(OfType(RelatedEntities(g, projectName), "feature"),
                          OfType(ComponentRelated(g, projectName), "feature")),
     issues |-> PushNew(OfType(RelatedEntities(g, projectName), "issue"),
                        OfType(ComponentRelated(g, projectName), "issue")),
     tasks |-> PushNew(OfType(RelatedEntities(g, projectName), "task"),
                       OfType(ComponentRelated(g, projectName), "task")),
     milestones |-> OfType(RelatedEntities(g, projectName), "milestone")]

\* [...tasks, ...issues, ...features, ...milestones]
StatusLookups(lists) == lists.tasks \o lists.issues \o lists.features \o lists.milestones

\* an object without keys
NoKeys == [key \in {} |-> ""]

\* if (value) { object[key] = value; }
SetIfTruthy(object, key, value) ==
    IF Truthy(value)
    THEN [k \in DOMAIN object \cup { key } |-> IF k = key THEN value ELSE object[k]]
    ELSE object

\* a filter that takes an entity without status for an inactive one
IsActiveKnown(statuses, entity) ==
    IF entity.name \in DOMAIN statuses THEN statuses[entity.name] = "active" ELSE FALSE

\* status ? status === 'active' : true
IsActive(statuses, entity) ==
    IF entity.name \in DOMAIN statuses THEN statuses[entity.name] = "active" ELSE TRUE

\* Find task sequencing
TaskSequencing(g, tasks) ==
    LET preceding(name) ==
            Flatten([i \in 1..Len(g.relations) |->
                IF g.relations[i].to = name /\ g.relations[i].relationType = "precedes"
                THEN << g.relations[i].from >> ELSE <<>>])
        following(name) ==
            Flatten([i \in 1..Len(g.relations) |->
                IF g.relations[i].from = name /\ g.relations[i].relationType = "precedes"
                THEN << g.relations[i].to >> ELSE <<>>])
        sequenced == { tasks[i].name : i \in { j \in 1..Len(tasks) :
                          preceding(tasks[j].name) # <<>> \/ following(tasks[j].name) # <<>> } }
    IN [name \in sequenced |->
           [precedingTasks |-> preceding(name), followingTasks |-> following(name)]]

\* the value getProjectStatus returns, from the graph it loaded and the
\* statuses and priorities it has collected
ProjectStatusResult(g, projectName, statuses, priorities) ==
    LET lists == ProjectLists(g, projectName)
        decisions ==
            SelectSeq(g.entities,
                      LAMBDA e : /\ e.entityType = "decision"
                                 /\ Some(g.relations,
                                         LAMBDA r : \/ (r.from = e.name /\ r.to = projectName)
                                                    \/ (r.to = e.name /\ r.from = projectName)))
    IN [project |-> g.entities[FirstIndex(g.entities,
                                   LAMBDA e : e.name = projectName /\ e.entityType = "project")],
        components |-> lists.components,
        activeFeatures |-> SelectSeq(lists.features, LAMBDA e : IsActive(statuses, e)),
        activeTasks |-> SelectSeq(lists.tasks, LAMBDA e : IsActive(statuses, e)),
        activeIssues |-> SelectSeq(lists.issues, LAMBDA e : IsActive(statuses, e)),
        upcomingMilestones |-> SelectSeq(lists.milestones, LAMBDA e : IsActive(statuses, e)),
        allFeatures |-> lists.features,
        allIssues |-> lists.issues,
        allTasks |-> lists.tasks,
        allMilestones |-> lists.milestones,
        recentDecisions |-> SubSeq(decisions, 1, IF Len(decisions) < 5 THEN Len(decisions) ELSE 5),
        statuses |-> statuses,
        priorities |-> priorities,
        taskSequencing |-> TaskSequencing(g, lists.tasks)]

\* the loop "Load status and priority for tasks and issues" with every
\* getEntityStatus and getEntityPriority reading the same graph h
RECURSIVE StatusesOf(_, _, _)
StatusesOf(h, entities, statuses) ==
    IF entities = <<>> THEN statuses
    ELSE StatusesOf(h, Tail(entities),
                    SetIfTruthy(statuses, Head(entities).name,
                                getEntityStatus(h, Head(entities).name)))

RECURSIVE PrioritiesOf(_, _, _)
PrioritiesOf(h, entities, priorities) ==
    IF entities = <<>> THEN priorities
    ELSE PrioritiesOf(h, Tail(entities),
                      SetIfTruthy(priorities, Head(entities).name,
                                  getEntityPriority(h, Head(entities).name)))

\* getProjectStatus when no other call writes the file while it runs
getProjectStatus(g, projectName) ==
    IF ~Some(g.entities, LAMBDA e : e.name = projectName /\ e.entityType = "project")
    THEN Throw(g, "ProjectNotFound", projectName)
    ELSE Ok(g, ProjectStatusResult(
                  g, projectName,
                  StatusesOf(g, StatusLookups(ProjectLists(g, projectName)), NoKeys),
                  PrioritiesOf(g, StatusLookups(ProjectLists(g, projectName)), NoKeys)))

(***************************************************************************)
(* The typed queries: getComponentContext, getRelatedEntities,             *)
(* getDecisionHistory and getMilestoneProgress                             *)
(***************************************************************************)
\* the loop "for (const relation of graph.relations)" that pushes, for each
\* relation that Matches, the first entity that it Picks
Collect(g, Matches(_), Picks(_, _)) ==
    Flatten([i \in 1..Len(g.relations) |->
        IF Matches(g.relations[i])
        THEN LET j == FirstIndex(g.entities, LAMBDA e : Picks(g.relations[i], e))
             IN IF j = 0 THEN <<>> ELSE << g.entities[j] >>
        ELSE <<>>])

\* Find tasks related to this component
ComponentTasks(g, componentName) ==
    Collect(g, LAMBDA r : r.from = componentName \/ r.to = componentName,
            LAMBDA r, e : /\ (e.name = r.from \/ e.name = r.to)
                          /\ e.name # componentName
                          /\ e.entityType = "task")

\* the lists that getComponentContext collects
ComponentLists(g, componentName) ==
    [projects |->
        Collect(g, LAMBDA r : r.relationType = "contains" /\ r.to = componentName,
                LAMBDA r, e : e.name = r.from /\ e.entityType = "project"),
     features |->
        Collect(g, LAMBDA r : r.relationType = "implements" /\ r.from = componentName,
                LAMBDA r, e : e.name = r.to /\ e.entityType = "feature"),
     technologies |->
        Collect(g, LAMBDA r : r.relationType = "uses" /\ r.from = componentName,
                LAMBDA r, e : e.name = r.to /\ e.entityType = "technology"),
     issues |->
        Collect(g, LAMBDA r : r.relationType = "affects" /\ r.to = componentName,
                LAMBDA r, e : e.name = r.from /\ e.entityType = "issue"),
     tasks |-> ComponentTasks(g, componentName),
     documentation |->
        Collect(g, LAMBDA r : r.relationType = "documented_in" /\ r.from = componentName,
                LAMBDA r, e : e.name = r.to /\ e.entityType = "documentation"),
     dependencies |->
        Collect(g, LAMBDA r : r.relationType = "depends_on" /\ r.from = componentName,
                LAMBDA r, e : e.name = r.to)]

\* the value getComponentContext returns, from its lists and the statuses
\* and priorities it has collected
ComponentContextResult(g, componentName, lists, statuses, priorities) ==
    [component |-> g.entities[FirstIndex(g.entities,
                       LAMBDA e : e.name = componentName /\ e.entityType = "component")],
     projects |-> lists.projects,
     features |-> lists.features,
     technologies |-> lists.technologies,
     activeIssues |-> SelectSeq(lists.issues, LAMBDA e : IsActive(statuses, e)),
     activeTasks |-> SelectSeq(lists.tasks, LAMBDA e : IsActive(statuses, e)),
     documentation |-> lists.documentation,
     dependencies |-> lists.dependencies,
     allIssues |-> lists.issues,
     allTasks |-> lists.tasks,
     statuses |-> statuses,
     priorities |-> priorities]

\* [...tasks, ...issues, ...features]
ComponentLookups(lists) == lists.tasks \o lists.issues \o lists.features

\* getComponentContext when no other call writes the file while it runs
getComponentContext(g, componentName) ==
    IF ~Some(g.entities, LAMBDA e : e.name = componentName /\ e.entityType = "component")
    THEN Throw(g, "ComponentNotFound", componentName)
    ELSE Ok(g, ComponentContextResult(
                  g, componentName, ComponentLists(g, componentName),
                  StatusesOf(g, ComponentLookups(ComponentLists(g, componentName)), NoKeys),
                  PrioritiesOf(g, ComponentLookups(ComponentLists(g, componentName)), NoKeys)))

\* the relations that getRelatedEntities looks at; relationTypes is <<>> when
\* it is not given
RelevantRelations(g, entityName, relationTypes) ==
    SelectSeq(g.relations,
              LAMBDA r : /\ (r.from = entityName \/ r.to = entityName)
                         /\ (relationTypes # <<>> => ArrayIncludes(relationTypes, r.relationType)))

\* a query that does not look at the relation types it is given
getRelatedEntitiesAllTypes(g, entityName, relationTypes) ==
    IF ~HasEntity(g, entityName)
    THEN Throw(g, "EntityNotFound", entityName)
    ELSE LET relevant == RelevantRelations(g, entityName, <<>>)
             end(name) == FirstIndex(g.entities, LAMBDA e : e.name = name)
         IN Ok(g, [entity |-> g.entities[end(entityName)],
                   incomingRelations |->
                      Flatten([i \in 1..Len(relevant) |->
                          IF relevant[i].from # entityName /\ end(relevant[i].from) # 0
                          THEN << [relation |-> relevant[i],
                                   source |-> g.entities[end(relevant[i].from)]] >>
                          ELSE <<>>]),
                   outgoingRelations |->
                      Flatten([i \in 1..Len(relevant) |->
                          IF relevant[i].from = entityName /\ end(relevant[i].to) # 0
                          THEN << [relation |-> relevant[i],
                                   target |-> g.entities[end(relevant[i].to)]] >>
                          ELSE <<>>])])

getRelatedEntities(g, entityName, relationTypes) ==
    IF ~HasEntity(g, entityName)
    THEN Throw(g, "EntityNotFound", entityName)
    ELSE LET relevant == RelevantRelations(g, entityName, relationTypes)
             end(name) == FirstIndex(g.entities, LAMBDA e : e.name = name)
         IN Ok(g, [entity |-> g.entities[end(entityName)],
                   incomingRelations |->
                      Flatten([i \in 1..Len(relevant) |->
                          IF relevant[i].from # entityName /\ end(relevant[i].from) # 0
                          THEN << [relation |-> relevant[i],
                                   source |-> g.entities[end(relevant[i].from)]] >>
                          ELSE <<>>]),
                   outgoingRelations |->
                      Flatten([i \in 1..Len(relevant) |->
                          IF relevant[i].from = entityName /\ end(relevant[i].to) # 0
                          THEN << [relation |-> relevant[i],
                                   target |-> g.entities[end(relevant[i].to)]] >>
                          ELSE <<>>])])

\* o.startsWith('Date:')
IsDateObservation(o) == Len(o) >= 5 /\ SubSeq(o, 1, 5) = "Date:"

\* the time value of an Invalid Date; the times of the valid dates are not
\* negative here
NaN == -1

\* new Date(text).getTime(), for the texts "1" and "2" (without spaces to
\* trim), which are read as the first of January and of February 2001: their
\* order is all that the sort uses. Any other text, the empty one of the
\* observation 'Date:' included, gives an Invalid Date
DateTexts == << "1", "2" >>

DateTime(text) == IF ArrayIncludes(DateTexts, text)
                  THEN FirstIndex(DateTexts, LAMBDA t : t = text) ELSE NaN

\* date: dateObs ? new Date(dateObs.split(':')[1].trim()) : new Date(0)
DecisionDate(decision) ==
    LET i == FirstIndex(decision.observations, IsDateObservation)
    IN IF i = 0 THEN 0 ELSE DateTime(SplitColon1(decision.observations[i]))

\* (a, b) => b.date.getTime() - a.date.getTime(), as the sort reads it: a
\* difference that is NaN counts as 0
CompareDates(a, b) ==
    IF DecisionDate(a) = NaN \/ DecisionDate(b) = NaN
    THEN 0 ELSE DecisionDate(b) - DecisionDate(a)

SortsBefore(a, b) == CompareDates(a, b) < 0

\* the sort of the engine on a short array starts from the longest run at
\* the head of the array that goes one way: strictly descending (then it is
\* reversed) or not descending
RunLength(arr) ==
    CHOOSE n \in 2..Len(arr) :
        /\ \A i \in 3..n : SortsBefore(arr[i], arr[i - 1]) = SortsBefore(arr[2], arr[1])
        /\ n < Len(arr)
           => SortsBefore(arr[n + 1], arr[n]) # SortsBefore(arr[2], arr[1])

RECURSIVE Reversed(_)
Reversed(arr) ==
    IF arr = <<>> THEN <<>> ELSE Append(Reversed(Tail(arr)), Head(arr))

MakeRun(arr) ==
    IF SortsBefore(arr[2], arr[1])
    THEN Reversed(SubSeq(arr, 1, RunLength(arr)))
         \o SubSeq(arr, RunLength(arr) + 1, Len(arr))
    ELSE arr

\* the place of pivot among arr[left], ..., arr[right - 1], by bisection
RECURSIVE InsertionPoint(_, _, _, _)
InsertionPoint(arr, left, right, pivot) ==
    IF left >= right THEN left
    ELSE IF SortsBefore(pivot, arr[left + (right - left) \div 2])
         THEN InsertionPoint(arr, left, left + (right - left) \div 2, pivot)
         ELSE InsertionPoint(arr, left + (right - left) \div 2 + 1, right, pivot)

\* the elements from position start on are put in their places one by one
RECURSIVE BinaryInsertionSort(_, _)
BinaryInsertionSort(arr, start) ==
    IF start > Len(arr) THEN arr
    ELSE LET left == InsertionPoint(arr, 1, start, arr[start])
         IN BinaryInsertionSort(SubSeq(arr, 1, left - 1) \o << arr[start] >>
                                \o SubSeq(arr, left, start - 1)
                                \o SubSeq(arr, start + 1, Len(arr)),
                                start + 1)

\* decisionsWithDates.sort((a, b) => b.date.getTime() - a.date.getTime()):
\* a stable sort, latest date first
SortByDate(decisions) ==
    IF Len(decisions) < 2 THEN decisions
    ELSE BinaryInsertionSort(MakeRun(decisions), RunLength(decisions) + 1)

\* the decisions related to the project and to its components
ProjectDecisions(g, projectName) ==
    LET components ==
            Collect(g, LAMBDA r : r.relationType = "contains" /\ r.from = projectName,
                    LAMBDA r, e : e.name = r.to /\ e.entityType = "component")
        decisionsOf(name) ==
            Collect(g, LAMBDA r : r.relationType = "related_to" /\ r.to = name,
                    LAMBDA r, e : e.name = r.from /\ e.entityType = "decision")
    IN PushNew(decisionsOf(projectName),
               Flatten([c \in 1..Len(components) |-> decisionsOf(components[c].name)]))

\* a history that takes the entity of that name, whatever its type
getDecisionHistoryAnyType(g, projectName) ==
    IF ~HasEntity(g, projectName)
    THEN Throw(g, "ProjectNotFound", projectName)
    ELSE Ok(g, [project |-> g.entities[FirstIndex(g.entities,
                               LAMBDA e : e.name = projectName)],
                decisions |-> SortByDate(ProjectDecisions(g, projectName))])

getDecisionHistory(g, projectName) ==
    IF ~Some(g.entities, LAMBDA e : e.name = projectName /\ e.entityType = "project")
    THEN Throw(g, "ProjectNotFound", projectName)
    ELSE Ok(g, [project |-> g.entities[FirstIndex(g.entities,
                               LAMBDA e : e.name = projectName /\ e.entityType = "project")],
                decisions |-> SortByDate(ProjectDecisions(g, projectName))])

\* Find all tasks related to this milestone
MilestoneTasks(g, milestoneName) ==
    Collect(g, LAMBDA r : r.relationType = "related_to" /\ r.to = milestoneName,
            LAMBDA r, e : e.name = r.from /\ e.entityType = "task")

\* a task without status taken for a complete one
StatusOrComplete(statuses, task) ==
    IF task.name \in DOMAIN statuses THEN statuses[task.name] ELSE "complete"

\* statuses[task.name] || 'inactive'
StatusOrInactive(statuses, task) ==
    IF task.name \in DOMAIN statuses THEN statuses[task.name] ELSE "inactive"

\* Math.round((completed / total) * 100): the nearest integer, a half
\* upwards, exact while the quotient times 100 is computed without error
RoundPercent(completed, total) == (200 * completed + total) \div (2 * total)

\* the value getMilestoneProgress returns, from its tasks and the statuses
\* it has collected
MilestoneProgressResult(g, milestoneName, tasks, statuses) ==
    LET completedTasks ==
            SelectSeq(tasks, LAMBDA t : StatusOrInactive(statuses, t) = "complete")
        inProgressTasks ==
            SelectSeq(tasks, LAMBDA t : StatusOrInactive(statuses, t) = "active")
        notStartedTasks ==
            SelectSeq(tasks, LAMBDA t : StatusOrInactive(statuses, t) \notin { "complete", "active" })
    IN [milestone |-> g.entities[FirstIndex(g.entities,
                          LAMBDA e : e.name = milestoneName /\ e.entityType = "milestone")],
        progress |->
           [totalTasks |-> Len(tasks),
            completedTasks |-> Len(completedTasks),
            inProgressTasks |-> Len(inProgressTasks),
            notStartedTasks |-> Len(notStartedTasks),
            percentage |-> IF Len(tasks) > 0
                           THEN RoundPercent(Len(completedTasks), Len(tasks)) ELSE 0,
            complete |-> /\ Len(tasks) > 0
                         /\ \A i \in 1..Len(tasks) :
                               /\ tasks[i].name \in DOMAIN statuses
                               /\ statuses[tasks[i].name] = "complete"],
        tasks |-> [completed |-> completedTasks,
                   inProgress |-> inProgressTasks,
                   notStarted |-> notStartedTasks],
        taskSequencing |-> TaskSequencing(g, tasks),
        statuses |-> statuses]

\* getMilestoneProgress when no other call writes the file while it runs
getMilestoneProgress(g, milestoneName) ==
    IF ~Some(g.entities, LAMBDA e : e.name = milestoneName /\ e.entityType = "milestone")
    THEN Throw(g, "MilestoneNotFound", milestoneName)
    ELSE Ok(g, MilestoneProgressResult(
                  g, milestoneName, MilestoneTasks(g, milestoneName),
                  StatusesOf(g, MilestoneTasks(g, milestoneName), NoKeys)))

(***************************************************************************)
(* Session workflow: the endsession tool                                   *)
(***************************************************************************)
\* obj.key of an object that may lack the key
Has(obj, key) == key \in DOMAIN obj

\* obj.key || dflt, for a string-valued key
StrOr(obj, key, dflt) == IF Has(obj, key) /\ Truthy(obj[key]) THEN obj[key] ELSE dflt

\* obj.key || [], for an array-valued key (every array is truthy)
ArrOr(obj, key) == IF Has(obj, key) THEN obj[key] ELSE <<>>

\* JSON.stringify and JSON.parse, on arrays of strings and of objects with
\* string values: the text is kept as the value it denotes; a key whose value
\* is undefined is not written, which is how the model holds objects anyway
JSONStringify(v) == [json |-> v]

JSONParse(text) == text.json

\* try { await call } catch (error) { console.error(...) }
Caught(out) == [out EXCEPT !.ok = TRUE, !.error = NoError]

\* a task mapping that takes 'active' for active, as the project mapping does
TaskStatusValueWithActive(status) ==
    IF status = "completed" \/ status = "complete" THEN "complete"
    ELSE IF status = "in_progress" \/ status = "active" THEN "active" ELSE "inactive"

TaskStatusValue(status) ==
    IF status = "completed" \/ status = "complete" THEN "complete"
    ELSE IF status = "in_progress" THEN "active" ELSE "inactive"

ProjectStatusValue(status) ==
    IF status = "completed" \/ status = "complete" THEN "complete"
    ELSE IF status = "in_progress" \/ status = "active" THEN "active" ELSE "inactive"

AchievementName(now, i) == "Achievement_" \o ToString(now) \o "_" \o ToString(i)

\* sequencing inside one try block: the next await runs on the saved graph
\* unless the previous one threw
Then(out, F(_)) == IF out.ok THEN F(out.graph) ELSE out

\* mutant: the relation runs from the achievement to the focus
createAchievementsReversed(g, focus, achievements, now) ==
    IF Len(achievements) > 0
    THEN Then(createEntities(g, [i \in 1..Len(achievements) |->
                                    Entity(AchievementName(now, i), "decision",
                                           << achievements[i] >>)]),
              LAMBDA g1 :
                 createRelations(g1, [i \in 1..Len(achievements) |->
                                        Relation(AchievementName(now, i), focus, "contains")]))
    ELSE Ok(g, Undefined)

\* 2. Create achievement entities and link to focus project
createAchievements(g, focus, achievements, now) ==
    IF Len(achievements) > 0
    THEN Then(createEntities(g, [i \in 1..Len(achievements) |->
                                    Entity(AchievementName(now, i), "decision",
                                           << achievements[i] >>)]),
              LAMBDA g1 :
                 createRelations(g1, [i \in 1..Len(achievements) |->
                                        Relation(focus, AchievementName(now, i), "contains")]))
    ELSE Ok(g, Undefined)

\* the body of the loop of step 3, for a task that the search found
updateTaskStatus(g, focus, task) ==
    Then(Caught(setEntityStatus(g, task.name, TaskStatusValue(task.status))),
         LAMBDA g1 :
            \* If completed, link to this session
            IF task.status = "complete" \/ task.status = "completed"
            THEN createRelations(g1, << Relation(focus, task.name, "resolves") >>)
            ELSE Ok(g1, Undefined))

\* 3. Update task statuses
RECURSIVE updateTaskStatuses(_, _, _)
updateTaskStatuses(g, focus, taskUpdates) ==
    IF taskUpdates = <<>> THEN Ok(g, Undefined)
    ELSE Then(IF Len(searchNodes(g, "name:" \o Head(taskUpdates).name).entities) > 0
              THEN updateTaskStatus(g, focus, Head(taskUpdates))
              ELSE Ok(g, Undefined),
              LAMBDA g1 : updateTaskStatuses(g1, focus, Tail(taskUpdates)))

\* 4. Update project status
updateProjectStatus(g, projectUpdate) ==
    IF Len(searchNodes(g, "name:" \o projectUpdate.name).entities) > 0
    THEN Then(IF Truthy(projectUpdate.observation)
              THEN addObservations(g, << [entityName |-> projectUpdate.name,
                                          contents |-> << projectUpdate.observation >>] >>)
              ELSE Ok(g, Undefined),
              LAMBDA g1 :
                 Caught(setEntityStatus(g1, projectUpdate.name,
                                        ProjectStatusValue(projectUpdate.status))))
    ELSE Ok(g, Undefined)

\* Set status, priority, and sequencing of one new task; each of the three
\* try blocks catches what it throws, and a throw of the first sequencing
\* createRelations skips the second
setUpNewTask(g, task) ==
    Then(Then(Caught(setEntityStatus(g, task.name, "active")),
              LAMBDA g1 :
                 IF Has(task, "priority") /\ Truthy(task.priority)
                 THEN Caught(setEntityPriority(
                                g1, task.name,
                                IF ToLowerCase(task.priority) = "high" THEN "high" ELSE "low"))
                 ELSE Ok(g1, Undefined)),
         LAMBDA g2 :
            Caught(Then(IF Has(task, "precedes") /\ Truthy(task.precedes)
                        THEN createRelations(
                                g2, << Relation(task.name, task.precedes, "precedes") >>)
                        ELSE Ok(g2, Undefined),
                        LAMBDA g3 :
                           IF Has(task, "follows") /\ Truthy(task.follows)
                           THEN createRelations(
                                   g3, << Relation(task.follows, task.name, "precedes") >>)
                           ELSE Ok(g3, Undefined))))

\* Set status, priority, and sequencing for each task
RECURSIVE setUpNewTasks(_, _)
setUpNewTasks(g, newTasks) ==
    IF newTasks = <<>> THEN Ok(g, Undefined)
    ELSE Then(setUpNewTask(g, Head(newTasks)),
              LAMBDA g1 : setUpNewTasks(g1, Tail(newTasks)))

\* 5. Create new tasks
createNewTasks(g, projectName, newTasks) ==
    IF Len(newTasks) > 0
    THEN Then(Then(createEntities(g, [i \in 1..Len(newTasks) |->
                                        Entity(newTasks[i].name, "task",
                                               << IF Has(newTasks[i], "description")
                                                  THEN newTasks[i].description
                                                  ELSE Undefined >>)]),
                   LAMBDA g1 : setUpNewTasks(g1, newTasks)),
              \* Link tasks to project
              LAMBDA g2 :
                 createRelations(g2, [i \in 1..Len(newTasks) |->
                                        Relation(projectName, newTasks[i].name, "contains")]))
    ELSE Ok(g, Undefined)

\* the graph writes of the committing transition, in order; a throw outside
\* the inner try blocks ends them and leaves what was saved so far.  The
\* assembled texts are never empty ("[]" at least), so each is parsed.
commitSession(g, args, now) ==
    Then(Then(Then(createAchievements(g, args.focus, JSONParse(args.achievements), now),
                   LAMBDA g2 : updateTaskStatuses(g2, args.focus, JSONParse(args.taskUpdates))),
              LAMBDA g3 :
                 updateProjectStatus(g3, [name |-> args.projectName,
                                          status |-> args.projectStatus,
                                          observation |-> args.projectObservation])),
         LAMBDA g4 : createNewTasks(g4, args.projectName, JSONParse(args.newTasks)))

StageNames == { "summary", "achievements", "taskUpdates", "newTasks", "projectStatus" }

\* stages.find(s => s.stage === name): the first record of that stage, as a
\* one-element or empty array
FindStage(stages, name) ==
    LET i == FirstIndex(stages, LAMBDA s : Has(s, "stage") /\ s.stage = name)
    IN IF i = 0 THEN <<>> ELSE << stages[i] >>

\* found?.stageData?.key || dflt
StageStr(found, key, dflt) ==
    IF found # <<>> /\ Has(found[1], "stageData") THEN StrOr(found[1].stageData, key, dflt)
    ELSE dflt

\* found?.stageData?.key || []
StageArr(found, key) ==
    IF found # <<>> /\ Has(found[1], "stageData") THEN ArrOr(found[1].stageData, key)
    ELSE <<>>

assembleEndSessionArgs(stages) ==
    LET summaryStage == FindStage(stages, "summary")
        achievementsStage == FindStage(stages, "achievements")
        taskUpdatesStage == FindStage(stages, "taskUpdates")
        newTasksStage == FindStage(stages, "newTasks")
        projectStatusStage == FindStage(stages, "projectStatus")
    IN [summary |-> StageStr(summaryStage, "summary", ""),
        duration |-> StageStr(summaryStage, "duration", "unknown"),
        focus |-> StageStr(summaryStage, "focus", ""),
        achievements |-> JSONStringify(StageArr(achievementsStage, "achievements")),
        taskUpdates |-> JSONStringify(StageArr(taskUpdatesStage, "taskUpdates")),
        projectName |-> StageStr(projectStatusStage, "projectName", ""),
        projectStatus |-> StageStr(projectStatusStage, "projectStatus", ""),
        projectObservation |-> StageStr(projectStatusStage, "projectObservation", ""),
        newTasks |-> JSONStringify(StageArr(newTasksStage, "newTasks"))]

DefaultStageData(stage) ==
    CASE stage = "summary" -> [summary |-> "", duration |-> "", focus |-> ""]
      [] stage = "achievements" -> [achievements |-> <<>>]
      [] stage = "taskUpdates" -> [taskUpdates |-> <<>>]
      [] stage = "newTasks" -> [newTasks |-> <<>>]
      [] stage = "projectStatus" ->
            [projectName |-> "", projectStatus |-> "", projectObservation |-> ""]

\* a processStage that takes any stage name for a stage with data
processStageAnyName(params, previousStages) ==
    IF params.stage = "assembly"
    THEN [ok |-> TRUE, error |-> NoError,
          ret |-> [stage |-> "assembly",
                   stageNumber |-> params.stageNumber,
                   analysis |-> "Final assembly of endsession arguments",
                   stageData |-> assembleEndSessionArgs(previousStages),
                   completed |-> TRUE]]
    ELSE [ok |-> TRUE, error |-> NoError,
          ret |-> [stage |-> params.stage,
                   stageNumber |-> params.stageNumber,
                   analysis |-> StrOr(params, "analysis", ""),
                   stageData |-> IF Has(params, "stageData") THEN params.stageData
                                 ELSE DefaultStageData("summary"),
                   completed |-> ~params.nextStageNeeded]]

\* the outcome's ret is the stage result
processStage(params, previousStages) ==
    IF params.stage \in StageNames
    THEN [ok |-> TRUE, error |-> NoError,
          ret |-> [stage |-> params.stage,
                   stageNumber |-> params.stageNumber,
                   analysis |-> StrOr(params, "analysis", ""),
                   stageData |-> IF Has(params, "stageData") THEN params.stageData
                                 ELSE DefaultStageData(params.stage),
                   completed |-> ~params.nextStageNeeded]]
    ELSE IF params.stage = "assembly"
    THEN [ok |-> TRUE, error |-> NoError,
          ret |-> [stage |-> "assembly",
                   stageNumber |-> params.stageNumber,
                   analysis |-> "Final assembly of endsession arguments",
                   stageData |-> assembleEndSessionArgs(previousStages),
                   completed |-> TRUE]]
    ELSE [ok |-> FALSE, error |-> [kind |-> "UnknownStage", value |-> params.stage],
          ret |-> Undefined]

\* { type: 'analysis_stage', ...stageResult }
AnalysisStage(stageResult) ==
    [type |-> "analysis_stage",
     stage |-> stageResult.stage,
     stageNumber |-> stageResult.stageNumber,
     analysis |-> stageResult.analysis,
     stageData |-> stageResult.stageData,
     completed |-> stageResult.completed]

\* a store that pushes every stage, revision or not
storeStageAppending(sessionState, params, stageResult) ==
    Append(sessionState, AnalysisStage(stageResult))

\* a store whose revision branch keeps the analysis stages only
storeStageAnalysisOnly(sessionState, params, stageResult) ==
    IF Has(params, "isRevision") /\ params.isRevision
       /\ Has(params, "revisesStage") /\ params.revisesStage # 0
    THEN LET analysisStages == SelectSeq(sessionState, LAMBDA item : item.type = "analysis_stage")
         IN IF params.revisesStage <= Len(analysisStages)
            THEN [analysisStages EXCEPT ![params.revisesStage] = AnalysisStage(stageResult)]
            ELSE Append(analysisStages, AnalysisStage(stageResult))
    ELSE Append(sessionState, AnalysisStage(stageResult))

\* Store updated state: the revision branch or the plain push
storeStage(sessionState, params, stageResult) ==
    IF Has(params, "isRevision") /\ params.isRevision
       /\ Has(params, "revisesStage") /\ params.revisesStage # 0
    THEN LET analysisStages == SelectSeq(sessionState, LAMBDA item : item.type = "analysis_stage")
             revised == IF params.revisesStage <= Len(analysisStages)
                        THEN [analysisStages EXCEPT ![params.revisesStage] =
                                    AnalysisStage(stageResult)]
                        ELSE Append(analysisStages, AnalysisStage(stageResult))
         IN SelectSeq(sessionState, LAMBDA item : item.type # "analysis_stage") \o revised
    ELSE Append(sessionState, AnalysisStage(stageResult))

\* the end of the handler, given the outcome of the graph writes
endsessionCommitted(sessions, params, sessionState, args, committed, now) ==
    IF committed.ok
    THEN [ok |-> TRUE,
          sessionStates |->
             [sessions EXCEPT ![params.sessionId] =
                Append(sessionState,
                       [type |-> "session_completed", timestamp |-> now,
                        summary |-> args.summary, project |-> args.focus])],
          graph |-> committed.graph,
          ret |-> [success |-> TRUE, sessionRecorded |-> TRUE],
          error |-> NoError]
    ELSE [ok |-> FALSE,
          sessionStates |-> [sessions EXCEPT ![params.sessionId] = sessionState],
          graph |-> committed.graph,
          ret |-> [success |-> FALSE, sessionRecorded |-> FALSE],
          error |-> [kind |-> "ErrorRecordingSession", value |-> committed.error]]

\* a handler that commits on every assembly stage, final or not
endsessionStoredEveryAssembly(sessions, g, params, stageResult, sessionState, now) ==
    IF params.stage = "assembly"
    THEN endsessionCommitted(sessions, params, sessionState, stageResult.stageData,
                             commitSession(g, stageResult.stageData, now), now)
    ELSE [ok |-> TRUE,
          sessionStates |-> [sessions EXCEPT ![params.sessionId] = sessionState],
          graph |-> g,
          ret |-> [success |-> TRUE, sessionRecorded |-> FALSE],
          error |-> NoError]

\* the handler from the save of the session states on
endsessionStored(sessions, g, params, stageResult, sessionState, now) ==
    IF params.stage = "assembly" /\ ~params.nextStageNeeded
    THEN endsessionCommitted(sessions, params, sessionState, stageResult.stageData,
                             commitSession(g, stageResult.stageData, now), now)
    ELSE [ok |-> TRUE,
          sessionStates |-> [sessions EXCEPT ![params.sessionId] = sessionState],
          graph |-> g,
          ret |-> [success |-> TRUE, sessionRecorded |-> FALSE],
          error |-> NoError]

\* the handler from the stage result on
endsessionStaged(sessions, g, params, staged, now) ==
    IF ~staged.ok
    THEN [ok |-> FALSE, sessionStates |-> sessions, graph |-> g,
          ret |-> [success |-> FALSE, sessionRecorded |-> FALSE],
          error |-> staged.error]
    ELSE endsessionStored(sessions, g, params, staged.ret,
                          storeStage(sessions[params.sessionId], params, staged.ret), now)

\* a handler that initializes a session it does not know, as loadcontext does
endsessionAnySession(sessions, g, params, now) ==
    endsessionStaged([id \in DOMAIN sessions \cup { params.sessionId } |->
                         IF id \in DOMAIN sessions THEN sessions[id] ELSE <<>>],
                     g, params,
                     processStage(params, IF params.sessionId \in DOMAIN sessions
                                          THEN sessions[params.sessionId] ELSE <<>>),
                     now)

\* the endsession handler: an outcome [ok, sessionStates, graph, ret, error]
endsession(sessions, g, params, now) ==
    IF params.sessionId \notin DOMAIN sessions
    THEN [ok |-> FALSE, sessionStates |-> sessions, graph |-> g,
          ret |-> [success |-> FALSE, sessionRecorded |-> FALSE],
          error |-> [kind |-> "SessionNotFound", value |-> params.sessionId]]
    ELSE endsessionStaged(sessions, g, params,
                          processStage(params, sessions[params.sessionId]), now)

(***************************************************************************)
(* Inputs                                                                  *)
(***************************************************************************)
RECURSIVE SeqsUpTo(_, _)
SeqsUpTo(S, n) ==
    IF n = 0 THEN { <<>> }
    ELSE LET shorter == SeqsUpTo(S, n - 1)
         IN shorter \cup { Append(s, x) : s \in { t \in shorter : Len(t) = n - 1 }, x \in S }

EntityInputs ==
    { Entity("T1", "task", << "d1" >>),
      Entity("P1", "project", <<>>),
      Entity("T1", "gadget", <<>>) }

RelationInputs ==
    { Relation("P1", "T1", "contains"),
      Relation("T1", "status:active", "has_status"),
      Relation("T1", "P1", "has_status"),
      Relation("T1", "P1", "likes") }

DeleteRelationInputs ==
    { Relation("P1", "T1", "contains"),
      Relation("T1", "status:active", "has_status") }

DeleteNameInputs == { "T1", "status:active" }

NameInputs == { "T1" }

StatusInputs == { "active", "complete", "done" }

PriorityInputs == { "low", "high", "medium" }

EntityBatches == SeqsUpTo(EntityInputs, MaxBatch)

RelationBatches == SeqsUpTo(RelationInputs, MaxBatch)

DeleteNameBatches == SeqsUpTo(DeleteNameInputs, MaxBatch)

DeleteRelationBatches == SeqsUpTo(DeleteRelationInputs, MaxBatch)

Fits(g) == Len(g.entities) <= MaxEntities /\ Len(g.relations) <= MaxRelations

Setters == { "setEntityStatus", "setEntityPriority" }

\* mutant: the entities and relations of the file that the written graph
\* lacks are kept
saveGraphMerging(persisted, g) ==
    [entities |-> g.entities \o SelectSeq(persisted.entities,
                                          LAMBDA e : ~Some(g.entities, LAMBDA x : x = e)),
     relations |-> g.relations \o SelectSeq(persisted.relations,
                                            LAMBDA r : ~Some(g.relations, LAMBDA x : x = r))]

\* fs.writeFile replaces the content of the file by the graph it is given
saveGraph(persisted, g) == g

Save(out) == graph' = saveGraph(graph, out.graph)

\* a client with no call in flight
Idle == [pc |-> "idle"]

NoCalls == [c \in 1..MaxCalls |-> Idle]

Record(op, args, out) ==
    /\ last' = [op |-> op, args |-> args, ok |-> out.ok, ret |-> out.ret,
                error |-> out.error]
    /\ repeatOf' = IF op \in Setters /\ last.op = op /\ last.ok THEN last.args ELSE <<>>

\* loadSessionStates on an absent file
EmptySessions == [id \in {} |-> <<>>]

\* the keys of the Map that is written: the identifiers that were in the
\* file keep their order, an identifier that is set for the first time
\* comes last
RECURSIVE KeysAfter(_, _)
KeysAfter(keys, ids) ==
    IF \E id \in ids : ~ArrayIncludes(keys, id)
    THEN KeysAfter(Append(keys, CHOOSE id \in ids : ~ArrayIncludes(keys, id)), ids)
    ELSE SelectSeq(keys, LAMBDA id : id \in ids)

\* saveSessionStates
SaveSessionStates(out) ==
    /\ sessionStates' = out.sessionStates
    /\ sessionKeys' = KeysAfter(sessionKeys, DOMAIN out.sessionStates)

(***************************************************************************)
(* State machine                                                           *)
(***************************************************************************)
Started ==
    [op |-> "main", args |-> <<>>, ok |-> TRUE, ret |-> Undefined, error |-> NoError]

Init ==
    /\ graph = initializeStatusAndPriority(EmptyGraph).graph
    /\ sessionStates = EmptySessions
    /\ sessionKeys = <<>>
    /\ clock = 1
    /\ inflight = NoCalls
    /\ last = Started
    /\ repeatOf = <<>>

\* a restart of the server: main() runs initializeStatusAndPriority again
Main ==
    \E out \in { initializeStatusAndPriority(graph) } :
        /\ Save(out)
        /\ Record("main", <<>>, out)
        /\ UNCHANGED <<sessionStates, sessionKeys, clock, inflight>>

CreateEntitiesOf(batches) ==
    \E entities \in batches :
        \E out \in { createEntities(graph, entities) } :
            /\ Fits(out.graph)
            /\ Save(out)
            /\ Record("createEntities", entities, out)
            /\ UNCHANGED <<sessionStates, sessionKeys, clock, inflight>>

CreateRelationsOf(batches) ==
    \E relations \in batches :
        \E out \in { createRelations(graph, relations) } :
            /\ Fits(out.graph)
            /\ Save(out)
            /\ Record("createRelations", relations, out)
            /\ UNCHANGED <<sessionStates, sessionKeys, clock, inflight>>

DeleteEntitiesOf(batches) ==
    \E entityNames \in batches :
        \E out \in { deleteEntities(graph, entityNames) } :
            /\ Save(out)
            /\ Record("deleteEntities", entityNames, out)
            /\ UNCHANGED <<sessionStates, sessionKeys, clock, inflight>>

DeleteRelationsOf(batches) ==
    \E relations \in batches :
        \E out \in { deleteRelations(graph, relations) } :
            /\ Save(out)
            /\ Record("deleteRelations", relations, out)
            /\ UNCHANGED <<sessionStates, sessionKeys, clock, inflight>>

SetEntityStatusOf(names, values) ==
    \E entityName \in names, statusValue \in values :
        \E out \in { setEntityStatus(graph, entityName, statusValue) } :
            /\ Save(out)
            /\ Record("setEntityStatus", <<entityName, statusValue>>, out)
            /\ UNCHANGED <<sessionStates, sessionKeys, clock, inflight>>

SetEntityPriorityOf(names, values) ==
    \E entityName \in names, priorityValue \in values :
        \E out \in { setEntityPriority(graph, entityName, priorityValue) } :
            /\ Save(out)
            /\ Record("setEntityPriority", <<entityName, priorityValue>>, out)
            /\ UNCHANGED <<sessionStates, sessionKeys, clock, inflight>>

\* the endsession tool; the session log is kept within MaxLog records
EndsessionOf(calls) ==
    \E params \in calls :
        \E out \in { endsession(sessionStates, graph, params, clock) } :
            /\ \A id \in DOMAIN out.sessionStates : Len(out.sessionStates[id]) <= MaxLog
            /\ SaveSessionStates(out)
            /\ Save(out)
            /\ Record("endsession", params, out)
            /\ UNCHANGED <<clock, inflight>>

CreateEntities == CreateEntitiesOf(EntityBatches)

CreateRelations == CreateRelationsOf(RelationBatches)

DeleteEntities == DeleteEntitiesOf(DeleteNameBatches)

DeleteRelations == DeleteRelationsOf(DeleteRelationBatches)

SetEntityStatus == SetEntityStatusOf(NameInputs, StatusInputs)

SetEntityPriority == SetEntityPriorityOf(NameInputs, PriorityInputs)

Next ==
    \/ Main
    \/ CreateEntities
    \/ CreateRelations
    \/ DeleteEntities
    \/ DeleteRelations
    \/ SetEntityStatus
    \/ SetEntityPriority

Spec == Init /\ [][Next]_vars

(***************************************************************************)
(* The session workflow: the graph operations on one task of one project,  *)
(* and endsession calls on a session that startsession has opened          *)
(***************************************************************************)
SessionId == "dev_1_a"

CommitEntityBatches ==
    { << Entity("T1", "task", << "name:T1" >>) >>,
      << Entity("P1", "project", <<>>) >> }

CommitRelationBatches ==
    { << Relation("P1", "T1", "contains") >>,
      << Relation("T1", "status:active", "has_status") >>,
      << Relation("T1", "priority:low", "has_priority") >> }

CommitDeleteNameBatches == { << "T1" >> }

StageCall(stage, stageNumber, stageData) ==
    [sessionId |-> SessionId, stage |-> stage, stageNumber |-> stageNumber,
     totalStages |-> 5, nextStageNeeded |-> TRUE, stageData |-> stageData]

SummaryCall == StageCall("summary", 1, [summary |-> "s", duration |-> "1h", focus |-> "P1"])

ProjectStatusCall ==
    StageCall("projectStatus", 2,
              [projectName |-> "P1", projectStatus |-> "in_progress",
               projectObservation |-> ""])

NewTasksCall ==
      StageCall("newTasks", 4,
                [newTasks |-> << [name |-> "T2", description |-> "d2",
                                  priority |-> "high"] >>])

EndsessionCalls ==
    { StageCall("taskUpdates", 3,
                [taskUpdates |-> << [name |-> "T1", status |-> "completed"] >>]),
      [sessionId |-> SessionId, stage |-> "assembly", stageNumber |-> 5,
       totalStages |-> 5, nextStageNeeded |-> FALSE] }

\* the records that the summary, projectStatus and newTasks stages push
RecordedStages ==
    [i \in 1..3 |->
        AnalysisStage(processStage(<< SummaryCall, ProjectStatusCall, NewTasksCall >>[i],
                                   <<>>).ret)]

\* the state after main(), startsession and the first three stages of endsession
InitCommit ==
    /\ graph = initializeStatusAndPriority(EmptyGraph).graph
    /\ sessionStates = [id \in { SessionId } |-> RecordedStages]
    /\ sessionKeys = << SessionId >>
    /\ clock = 1
    /\ inflight = NoCalls
    /\ last = Started
    /\ repeatOf = <<>>

Endsession == EndsessionOf(EndsessionCalls)

NextCommit ==
    \/ Main
    \/ CreateEntitiesOf(CommitEntityBatches)
    \/ CreateRelationsOf(CommitRelationBatches)
    \/ DeleteEntitiesOf(CommitDeleteNameBatches)
    \/ SetEntityStatusOf({ "T1" }, { "active", "complete" })
    \/ SetEntityPriorityOf({ "T1" }, { "high" })
    \/ Endsession

SpecCommit == InitCommit /\ [][NextCommit]_vars

(***************************************************************************)
(* The queries: the graph operations on one task of one project, with an   *)
(* entity that takes the name of a status entity, and the advancedcontext   *)
(* searches                                                                 *)
(***************************************************************************)
QueryEntityBatches ==
    { << Entity("T1", "task", << "d1" >>) >>,
      << Entity("P1", "project", <<>>) >>,
      << Entity("status:active", "task", <<>>) >> }

QueryRelationBatches == { << Relation("P1", "T1", "contains") >> }

QueryDeleteNameBatches == { << "T1" >>, << "status:active" >> }

SearchInputs == { "1", "TASK", "d1", "zz" }

OpenInputs == { << "T1" >>, << "T1", "P1" >>, << "T1", "status:active" >>, << "zz" >> }

\* advancedcontext, type "search"
SearchNodes ==
    \E query \in SearchInputs :
        \E out \in { Ok(graph, searchNodes(graph, query)) } :
            /\ Save(out)
            /\ Record("searchNodes", query, out)
            /\ UNCHANGED <<sessionStates, sessionKeys, clock, inflight>>

\* advancedcontext, type "nodes"
OpenNodes ==
    \E names \in OpenInputs :
        \E out \in { Ok(graph, openNodes(graph, names)) } :
            /\ Save(out)
            /\ Record("openNodes", names, out)
            /\ UNCHANGED <<sessionStates, sessionKeys, clock, inflight>>

NextQuery ==
    \/ Main
    \/ CreateEntitiesOf(QueryEntityBatches)
    \/ CreateRelationsOf(QueryRelationBatches)
    \/ DeleteEntitiesOf(QueryDeleteNameBatches)
    \/ SetEntityStatusOf({ "T1" }, { "active" })
    \/ SearchNodes
    \/ OpenNodes

SpecQuery == Init /\ [][NextQuery]_vars

(***************************************************************************)
(* Session commits: a session whose stages are recorded is committed on    *)
(* graphs with and without the entities it names                           *)
(***************************************************************************)
StageRecord(call) == AnalysisStage(processStage(call, <<>>).ret)

\* the stages recorded before the assembly, for three sessions
TaskUpdateStages ==
    << StageRecord(SummaryCall),
       StageRecord(StageCall("taskUpdates", 2,
                      [taskUpdates |-> << [name |-> "T1", status |-> "completed"] >>])) >>

AchievementStages ==
    << StageRecord(SummaryCall),
       StageRecord(StageCall("achievements", 2, [achievements |-> << "a1", "a2" >>])) >>

NewTaskStages ==
    << StageRecord(SummaryCall),
       StageRecord(ProjectStatusCall),
       StageRecord(StageCall("newTasks", 3,
                      [newTasks |->
                          << [name |-> "N1", description |-> "d1", priority |-> "HIGH",
                              precedes |-> "X1", follows |-> "T1"],
                             [name |-> "N2", description |-> "d2", priority |-> "medium",
                              precedes |-> "T1"],
                             [name |-> "N3", description |-> "d3"] >>])) >>

SessionEntityBatches ==
    { << Entity("T1", "task", << "d1" >>) >>,
      << Entity("P1", "project", <<>>) >> }

SessionDeleteNameBatches == { << "T1" >> }

CommitCalls ==
    { [sessionId |-> SessionId, stage |-> "assembly", stageNumber |-> 4,
       totalStages |-> 4, nextStageNeeded |-> FALSE] }

\* time passes
Tick ==
    /\ clock < MaxClock
    /\ clock' = clock + 1
    /\ UNCHANGED <<graph, sessionStates, sessionKeys, inflight, last, repeatOf>>

InitSession ==
    /\ graph = initializeStatusAndPriority(EmptyGraph).graph
    /\ sessionStates \in { [id \in { SessionId } |-> stages] :
                              stages \in { TaskUpdateStages, AchievementStages, NewTaskStages } }
    /\ sessionKeys = << SessionId >>
    /\ clock = 1
    /\ inflight = NoCalls
    /\ last = Started
    /\ repeatOf = <<>>

NextSession ==
    \/ CreateEntitiesOf(SessionEntityBatches)
    \/ DeleteEntitiesOf(SessionDeleteNameBatches)
    \/ EndsessionOf(CommitCalls)
    \/ Tick

SpecSession == InitSession /\ [][NextSession]_vars

(***************************************************************************)
(* Status mapping: sessions that update the status of a task and of a      *)
(* project, with every kind of status text, are committed on a graph in    *)
(* which the search of the commit finds the task and the project           *)
(***************************************************************************)
StatusTexts == { "completed", "complete", "in_progress", "active", "inactive", "blocked" }

MappingEntities ==
    << Entity("T1", "task", << "name:T1" >>), Entity("P1", "project", << "name:P1" >>) >>

\* the stages recorded before the assembly
MappingStages(taskStatus, projectStatus) ==
    << StageRecord(SummaryCall),
       StageRecord(StageCall("taskUpdates", 2,
                      [taskUpdates |-> << [name |-> "T1", status |-> taskStatus] >>])),
       StageRecord(StageCall("projectStatus", 3,
                      [projectName |-> "P1", projectStatus |-> projectStatus,
                       projectObservation |-> ""])) >>

\* the state after main(), createEntities, startsession and three stages
InitMapping ==
    /\ graph = createEntities(initializeStatusAndPriority(EmptyGraph).graph,
                              MappingEntities).graph
    /\ sessionStates \in { [id \in { SessionId } |-> MappingStages(taskStatus, projectStatus)] :
                              taskStatus \in StatusTexts, projectStatus \in StatusTexts }
    /\ sessionKeys = << SessionId >>
    /\ clock = 1
    /\ inflight = NoCalls
    /\ last = Started
    /\ repeatOf = <<>>

NextMapping ==
    \/ SetEntityStatusOf({ "T1", "P1" }, { "complete" })
    \/ DeleteEntitiesOf({ << "P1" >> })
    \/ EndsessionOf(CommitCalls)

SpecMapping == InitMapping /\ [][NextMapping]_vars

(***************************************************************************)
(* Status and priority of two entities: the setters are called with legal  *)
(* and illegal values on a task and a project that are created, related    *)
(* and given a status and a priority by createRelations as well            *)
(***************************************************************************)
SetterEntityBatches ==
    { << Entity("T1", "task", <<>>) >>, << Entity("P1", "project", <<>>) >> }

SetterRelationBatches ==
    { << Relation("P1", "T1", "contains") >>,
      << Relation("T1", "status:active", "has_status") >>,
      << Relation("P1", "priority:low", "has_priority") >> }

SetterNames == { "T1", "P1" }

NextSetters ==
    \/ CreateEntitiesOf(SetterEntityBatches)
    \/ CreateRelationsOf(SetterRelationBatches)
    \/ SetEntityStatusOf(SetterNames, { "complete", "done" })
    \/ SetEntityPriorityOf(SetterNames, { "high", "medium" })

SpecSetters == Init /\ [][NextSetters]_vars

(***************************************************************************)
(* Stage recording: one session of the project P1 records summary and      *)
(* achievements stages, revises recorded stages by position, assembles     *)
(* and commits                                                             *)
(***************************************************************************)
SummaryOf(focus) ==
    StageCall("summary", 1, [summary |-> "s", duration |-> "1h", focus |-> focus])

AchievementsCall == StageCall("achievements", 2, [achievements |-> << "a1" >>])

StageCalls == { SummaryOf("P1"), SummaryOf("P2"), AchievementsCall }

\* the same calls as revisions of the first, second and third stage
Revision(call, k) ==
    [sessionId |-> call.sessionId, stage |-> call.stage, stageNumber |-> call.stageNumber,
     totalStages |-> call.totalStages, nextStageNeeded |-> call.nextStageNeeded,
     stageData |-> call.stageData, isRevision |-> TRUE, revisesStage |-> k]

RevisionCalls == { Revision(call, k) : call \in { SummaryOf("P2"), AchievementsCall }, k \in 1..3 }

AssemblyCalls ==
    { [sessionId |-> SessionId, stage |-> "assembly", stageNumber |-> 3,
       totalStages |-> 3, nextStageNeeded |-> needed] : needed \in BOOLEAN }

\* the state after main(), createEntities of the project and startsession
InitStages ==
    /\ graph = createEntities(initializeStatusAndPriority(EmptyGraph).graph,
                              << Entity("P1", "project", <<>>) >>).graph
    /\ sessionStates = [id \in { SessionId } |-> <<>>]
    /\ sessionKeys = << SessionId >>
    /\ clock = 1
    /\ inflight = NoCalls
    /\ last = Started
    /\ repeatOf = <<>>

\* the endsession tool on a session log kept within MaxStages records
StagesOf(calls) ==
    /\ EndsessionOf(calls)
    /\ Len(sessionStates'[SessionId]) <= MaxStages

RecordStage == StagesOf(StageCalls)

ReviseStage == StagesOf(RevisionCalls)

Assemble == StagesOf(AssemblyCalls)

NextStages ==
    \/ RecordStage
    \/ ReviseStage
    \/ Assemble

SpecStages == InitStages /\ [][NextStages]_vars

(***************************************************************************)
(* The session log: startsession, loadcontext and endsession on sessions   *)
(* that were started and on identifiers that were never started            *)
(***************************************************************************)
\* sessionStates.set(sessionId, sessionState)
SetSession(sessions, id, log) ==
    [k \in DOMAIN sessions \cup { id } |-> IF k = id THEN log ELSE sessions[k]]

\* one entry of recentSessions: the identifier and what the first summary
\* stage of the session says
RecentSession(id, stages) ==
    [id |-> id,
     project |-> StageStr(FindStage(stages, "summary"), "project", "Unknown project"),
     focus |-> StageStr(FindStage(stages, "summary"), "focus", "Unknown focus"),
     summary |-> StageStr(FindStage(stages, "summary"), "summary", "No summary available")]

\* Array.from(sessionStates.entries()).map(...).slice(0, 3): the entries in
\* the order of the keys
RecentSessions(sessions, keys) ==
    [i \in 1..(IF Len(keys) < 3 THEN Len(keys) ELSE 3) |->
        RecentSession(keys[i], sessions[keys[i]])]

\* the startsession tool: a new session with an empty log; the text it
\* returns lists the recent sessions and names the new session. keys are the
\* keys of the sessions file in their order
startsession(sessions, keys, g, sessionId) ==
    [ok |-> TRUE, sessionStates |-> SetSession(sessions, sessionId, <<>>), graph |-> g,
     ret |-> [sessionId |-> sessionId,
              recentSessions |->
                 RecentSessions(SetSession(sessions, sessionId, <<>>),
                                KeysAfter(keys, DOMAIN sessions \cup { sessionId }))],
     error |-> NoError]

\* { type: 'context_loaded', timestamp, entityName, entityType }
LoadEvent(entityName, entityType, now) ==
    [type |-> "context_loaded", timestamp |-> now, entityName |-> entityName,
     entityType |-> entityType]

\* loadcontext, the session part: the load event is pushed on the session,
\* which is initialized when it is not known
TrackLoad(sessions, entityName, entityType, sessionId, now) ==
    IF ~Truthy(sessionId) THEN sessions
    ELSE SetSession(sessions, sessionId,
                    Append(IF sessionId \in DOMAIN sessions THEN sessions[sessionId] ELSE <<>>,
                           LoadEvent(entityName, entityType, now)))

\* loadcontext, the graph part: the entity is found by a search and by its
\* exact name, and the query of its type finds it
ContextFound(g, entityName, entityType) ==
    /\ Some(searchNodes(g, entityName).entities, LAMBDA e : e.name = entityName)
    /\ entityType \in { "project", "component", "milestone" }
          => Some(g.entities, LAMBDA e : e.name = entityName /\ e.entityType = entityType)

\* the loadcontext tool
loadcontext(sessions, g, entityName, entityType, sessionId, now) ==
    IF ContextFound(g, entityName, entityType)
    THEN [ok |-> TRUE,
          sessionStates |-> TrackLoad(sessions, entityName, entityType, sessionId, now),
          graph |-> g,
          ret |-> [entityName |-> entityName, entityType |-> entityType,
                   status |-> getEntityStatus(g, entityName),
                   priority |-> getEntityPriority(g, entityName)],
          error |-> NoError]
    ELSE [ok |-> FALSE,
          sessionStates |-> TrackLoad(sessions, entityName, entityType, sessionId, now),
          graph |-> g, ret |-> Undefined,
          error |-> [kind |-> "EntityNotFound", value |-> entityName]]

RECURSIVE LogSize(_, _)
\* the number of records of the sessions ids
LogSize(sessions, ids) ==
    IF ids = {} THEN 0
    ELSE LET id == CHOOSE k \in ids : TRUE
         IN Len(sessions[id]) + LogSize(sessions, ids \ { id })

\* the session log is kept within MaxRecords records in all
FitsLog(sessions) == LogSize(sessions, DOMAIN sessions) <= MaxRecords

LogFits == FitsLog(sessionStates')

\* generateSessionId: the time and a random string
NewSessionIds == { SessionId }

\* a session identifier that startsession never returns
UnknownSessionId == "dev_0_z"

\* entityName, entityType and sessionId: a started session, a session that
\* loadcontext initializes, no session
LoadInputs ==
    { << "P1", "project", SessionId >>, << "X1", "project", SessionId >>,
      << "P1", "project", "dev_1_b" >>, << "P1", "project", "" >> }

StartSession ==
    \E sessionId \in NewSessionIds :
        \E out \in { startsession(sessionStates, sessionKeys, graph, sessionId) } :
            /\ SaveSessionStates(out)
            /\ Save(out)
            /\ Record("startsession", <<>>, out)
            /\ UNCHANGED <<clock, inflight>>

LoadContext ==
    \E input \in LoadInputs :
        /\ FitsLog(TrackLoad(sessionStates, input[1], input[2], input[3], clock))
        /\ \E out \in { loadcontext(sessionStates, graph, input[1], input[2], input[3], clock) } :
              /\ SaveSessionStates(out)
              /\ Save(out)
              /\ Record("loadcontext", input, out)
              /\ UNCHANGED <<clock, inflight>>

\* a call with a stage name that is none of the six
UnknownStageCall == StageCall("review", 1, [summary |-> "s", duration |-> "1h", focus |-> "P1"])

\* the call on another session
OnSession(call, id) == [call EXCEPT !.sessionId = id]

LogCalls ==
    { OnSession(call, id) :
        call \in { SummaryOf("P1"), UnknownStageCall, Revision(AchievementsCall, 1) }
                  \cup AssemblyCalls,
        id \in { SessionId, UnknownSessionId } }

LogEndsession ==
    /\ EndsessionOf(LogCalls)
    /\ LogFits

\* the state after main() and createEntities of a project
InitLog ==
    /\ graph = createEntities(initializeStatusAndPriority(EmptyGraph).graph,
                              << Entity("P1", "project", <<>>) >>).graph
    /\ sessionStates = EmptySessions
    /\ sessionKeys = <<>>
    /\ clock = 1
    /\ inflight = NoCalls
    /\ last = Started
    /\ repeatOf = <<>>

NextLog ==
    \/ StartSession
    \/ LoadContext
    \/ LogEndsession

SpecLog == InitLog /\ [][NextLog]_vars

(***************************************************************************)
(* Recent sessions: sessions are started one after the other, each at a    *)
(* later time, and summaries are recorded for them                         *)
(***************************************************************************)
MaxSessions == 5

\* generateSessionId at the times 1, 2, ...: `dev_${Date.now()}_${random}`
SessionIdsByTime == << "dev_1_a", "dev_2_a", "dev_3_a", "dev_4_a", "dev_5_a", "dev_6_a" >>

\* startsession at the time of the clock, which moves on
StartSessionNow ==
    /\ clock <= MaxSessions
    /\ clock <= Len(SessionIdsByTime)
    /\ \E out \in { startsession(sessionStates, sessionKeys, graph, SessionIdsByTime[clock]) } :
          /\ SaveSessionStates(out)
          /\ Save(out)
          /\ Record("startsession", <<>>, out)
    /\ clock' = clock + 1
    /\ UNCHANGED inflight

RecentCalls ==
    { OnSession(SummaryOf(focus), SessionIdsByTime[i]) :
        focus \in { "P1", "P2" }, i \in 1..Len(SessionIdsByTime) }

MaxSummaries == 2

RecentEndsession ==
    /\ EndsessionOf(RecentCalls)
    /\ LogSize(sessionStates', DOMAIN sessionStates') <= MaxSummaries

NextRecent ==
    \/ StartSessionNow
    \/ RecentEndsession

SpecRecent == Init /\ [][NextRecent]_vars

(***************************************************************************)
(* Observations: entities are created with observations and observations   *)
(* are added to them                                                       *)
(***************************************************************************)
ObservationTexts == { "a", "b" }

ObservationEntityBatches ==
    { << Entity("T1", "task", <<>>) >>,
      << Entity("P1", "project", << "a" >>) >>,
      << Entity("P1", "project", << "a", "a" >>) >> }

\* { entityName, contents }
Observation(entityName, contents) == [entityName |-> entityName, contents |-> contents]

ObservationInputs ==
    { Observation(entityName, contents) :
        entityName \in { "T1", "P1", "X1" },
        contents \in SeqsUpTo(ObservationTexts, MaxBatch) }

ObservationBatches ==
    { << o >> : o \in ObservationInputs }
    \cup { << Observation("T1", << "a" >>), o >> : o \in ObservationInputs }

AddObservationsOf(batches) ==
    \E observations \in batches :
        \E out \in { addObservations(graph, observations) } :
            /\ Save(out)
            /\ Record("addObservations", observations, out)
            /\ UNCHANGED <<sessionStates, sessionKeys, clock, inflight>>

AddObservations == AddObservationsOf(ObservationBatches)

NextObservations ==
    \/ CreateEntitiesOf(ObservationEntityBatches)
    \/ DeleteEntitiesOf({ << "T1" >>, << "P1" >> })
    \/ AddObservations

SpecObservations == Init /\ [][NextObservations]_vars

(***************************************************************************)
(* Milestone progress: the tasks of a milestone take statuses, leave the   *)
(* milestone, and the progress is queried                                  *)
(***************************************************************************)
MilestoneEntities ==
    << Entity("M1", "milestone", <<>>), Entity("T1", "task", <<>>),
       Entity("T2", "task", <<>>), Entity("T3", "task", <<>>) >>

\* the arrays of relations that createRelations has been called with: three
\* tasks of the milestone, one task, and two tasks the first of which is
\* listed twice
MilestoneRelationBatches ==
    { << Relation("T1", "M1", "related_to"), Relation("T2", "M1", "related_to"),
         Relation("T3", "M1", "related_to") >>,
      << Relation("T1", "M1", "related_to") >>,
      << Relation("T1", "M1", "related_to"), Relation("T1", "M1", "related_to"),
         Relation("T2", "M1", "related_to") >> }

\* the state after main(), a createEntities and a createRelations call
InitMilestone ==
    /\ graph \in { createRelations(
                       createEntities(initializeStatusAndPriority(EmptyGraph).graph,
                                      MilestoneEntities).graph,
                       relations).graph : relations \in MilestoneRelationBatches }
    /\ sessionStates = EmptySessions
    /\ sessionKeys = <<>>
    /\ clock = 1
    /\ inflight = NoCalls
    /\ last = Started
    /\ repeatOf = <<>>

MilestoneInputs == { "M1", "T1", "X1" }

GetMilestoneProgress ==
    \E milestoneName \in MilestoneInputs :
        \E out \in { getMilestoneProgress(graph, milestoneName) } :
            /\ Save(out)
            /\ Record("getMilestoneProgress", << milestoneName >>, out)
            /\ UNCHANGED <<sessionStates, sessionKeys, clock, inflight>>

NextMilestone ==
    \/ SetEntityStatusOf({ "T1", "T2", "T3" }, { "inactive", "active", "complete" })
    \/ DeleteRelationsOf({ << Relation("T3", "M1", "related_to") >>,
                           << Relation("T1", "status:complete", "has_status") >> })
    \/ GetMilestoneProgress

SpecMilestone == InitMilestone /\ [][NextMilestone]_vars

(***************************************************************************)
(* Active lists: the task, issue, feature and milestone of a project and   *)
(* its component take statuses, and the project status and the component   *)
(* context are queried                                                     *)
(***************************************************************************)
ActiveEntities ==
    << Entity("P1", "project", <<>>), Entity("C1", "component", <<>>),
       Entity("T1", "task", <<>>), Entity("I1", "issue", <<>>),
       Entity("F1", "feature", <<>>), Entity("M1", "milestone", <<>>) >>

ActiveRelations ==
    << Relation("P1", "C1", "contains"), Relation("T1", "C1", "part_of"),
       Relation("I1", "C1", "affects"), Relation("C1", "F1", "implements"),
       Relation("M1", "P1", "part_of") >>

\* the arrays of relations that createRelations has been called with: with
\* and without a has_status relation from the task to the project
ActiveRelationBatches ==
    { ActiveRelations, Append(ActiveRelations, Relation("T1", "P1", "has_status")) }

\* the state after main(), a createEntities and a createRelations call
InitActive ==
    /\ graph \in { createRelations(
                       createEntities(initializeStatusAndPriority(EmptyGraph).graph,
                                      ActiveEntities).graph,
                       relations).graph : relations \in ActiveRelationBatches }
    /\ sessionStates = EmptySessions
    /\ sessionKeys = <<>>
    /\ clock = 1
    /\ inflight = NoCalls
    /\ last = Started
    /\ repeatOf = <<>>

GetProjectStatus ==
    \E projectName \in { "P1", "C1", "X1" } :
        \E out \in { getProjectStatus(graph, projectName) } :
            /\ Save(out)
            /\ Record("getProjectStatus", << projectName >>, out)
            /\ UNCHANGED <<sessionStates, sessionKeys, clock, inflight>>

GetComponentContext ==
    \E componentName \in { "C1", "P1", "X1" } :
        \E out \in { getComponentContext(graph, componentName) } :
            /\ Save(out)
            /\ Record("getComponentContext", << componentName >>, out)
            /\ UNCHANGED <<sessionStates, sessionKeys, clock, inflight>>

NextActive ==
    \/ SetEntityStatusOf({ "T1", "I1" }, { "inactive", "active", "complete" })
    \/ SetEntityStatusOf({ "F1", "M1" }, { "active", "complete" })
    \/ DeleteRelationsOf({ << Relation("T1", "status:active", "has_status") >> })
    \/ GetProjectStatus
    \/ GetComponentContext

SpecActive == InitActive /\ [][NextActive]_vars

(***************************************************************************)
(* Collection: a task and a feature are related to a project and to its    *)
(* component by one or by several relations, no relation being stored      *)
(* twice                                                                   *)
(***************************************************************************)
CollectEntities ==
    << Entity("P1", "project", <<>>), Entity("C1", "component", <<>>),
       Entity("T1", "task", <<>>), Entity("F1", "feature", <<>>) >>

CollectRelationInputs ==
    { Relation("P1", "C1", "contains"), Relation("P1", "T1", "contains"),
      Relation("T1", "P1", "part_of"), Relation("T1", "C1", "part_of"),
      Relation("C1", "T1", "contains"), Relation("C1", "F1", "implements") }

MaxCollected == 3

\* the arrays of relations that createRelations has been called with, each
\* relation at most once
CollectRelationBatches ==
    { relations \in SeqsUpTo(CollectRelationInputs, MaxCollected) :
        \A i, j \in 1..Len(relations) : relations[i] = relations[j] => i = j }

\* the state after main(), a createEntities and a createRelations call
InitCollect ==
    /\ graph \in { createRelations(
                       createEntities(initializeStatusAndPriority(EmptyGraph).graph,
                                      CollectEntities).graph,
                       relations).graph : relations \in CollectRelationBatches }
    /\ sessionStates = EmptySessions
    /\ sessionKeys = <<>>
    /\ clock = 1
    /\ inflight = NoCalls
    /\ last = Started
    /\ repeatOf = <<>>

NextCollect ==
    \/ DeleteRelationsOf({ << r >> : r \in CollectRelationInputs })
    \/ GetProjectStatus

SpecCollect == InitCollect /\ [][NextCollect]_vars

(***************************************************************************)
(* The typed queries on names that no entity has, that an entity of the    *)
(* required type has and that an entity of another type has                *)
(***************************************************************************)
TypedEntityBatches ==
    { << Entity("P1", "project", <<>>) >>,
      << Entity("P1", "component", <<>>) >>,
      << Entity("M1", "milestone", <<>>) >>,
      << Entity("M1", "task", <<>>) >>,
      << Entity("C1", "component", <<>>) >>,
      << Entity("D1", "decision", << "Date:1" >>) >> }

TypedRelationBatches ==
    { << Relation("D1", "P1", "related_to") >>,
      << Relation("M1", "P1", "part_of") >> }

TypedDeleteNameBatches == { << "P1" >>, << "M1" >>, << "C1" >>, << "D1" >> }

GetDecisionHistory ==
    \E projectName \in { "P1", "M1", "X1" } :
        \E out \in { getDecisionHistory(graph, projectName) } :
            /\ Save(out)
            /\ Record("getDecisionHistory", << projectName >>, out)
            /\ UNCHANGED <<sessionStates, sessionKeys, clock, inflight>>

GetRelatedEntitiesOf(names, typeLists) ==
    \E entityName \in names, relationTypes \in typeLists :
        \E out \in { getRelatedEntities(graph, entityName, relationTypes) } :
            /\ Save(out)
            /\ Record("getRelatedEntities", << entityName, relationTypes >>, out)
            /\ UNCHANGED <<sessionStates, sessionKeys, clock, inflight>>

GetRelatedEntities == GetRelatedEntitiesOf({ "P1", "M1", "X1" }, { <<>>, << "part_of" >> })

NextTyped ==
    \/ CreateEntitiesOf(TypedEntityBatches)
    \/ CreateRelationsOf(TypedRelationBatches)
    \/ DeleteEntitiesOf(TypedDeleteNameBatches)
    \/ GetProjectStatus
    \/ GetComponentContext
    \/ GetMilestoneProgress
    \/ GetDecisionHistory
    \/ GetRelatedEntities

SpecTyped == Init /\ [][NextTyped]_vars

(***************************************************************************)
(* Related entities: a project and a task are related to each other and to *)
(* themselves, take a status whose entity may have been deleted, and are   *)
(* queried with and without relation types                                 *)
(***************************************************************************)
RelatedEntityBatches ==
    { << Entity("P1", "project", <<>>) >>, << Entity("T1", "task", <<>>) >> }

RelatedRelationBatches ==
    { << Relation("P1", "T1", "contains") >>,
      << Relation("T1", "P1", "part_of") >>,
      << Relation("P1", "P1", "depends_on") >>,
      << Relation("T1", "P1", "part_of"), Relation("P1", "P1", "depends_on") >> }

RelatedTypeLists == { <<>>, << "part_of" >>, << "depends_on", "has_status" >> }

NextRelated ==
    \/ CreateEntitiesOf(RelatedEntityBatches)
    \/ CreateRelationsOf(RelatedRelationBatches)
    \/ SetEntityStatusOf({ "P1" }, { "active" })
    \/ DeleteEntitiesOf({ << "status:active" >>, << "T1" >> })
    \/ GetRelatedEntitiesOf({ "P1", "T1", "X1" }, RelatedTypeLists)

SpecRelated == Init /\ [][NextRelated]_vars

(***************************************************************************)
(* Decision history: decisions without a date, with the dates 1 and 2 and  *)
(* with a date that does not parse are related to a project and to its     *)
(* component in every order                                                *)
(***************************************************************************)
DecisionEntities ==
    << Entity("P1", "project", <<>>), Entity("C1", "component", <<>>),
       Entity("D0", "decision", << "why" >>),
       Entity("D1", "decision", << "Date:1" >>),
       Entity("D2", "decision", << "why", "Date:2" >>),
       Entity("D3", "decision", << "Date:" >>) >>

DecisionRelationInputs ==
    { Relation("D0", "P1", "related_to"), Relation("D1", "P1", "related_to"),
      Relation("D2", "C1", "related_to"), Relation("D2", "P1", "related_to"),
      Relation("D3", "P1", "related_to") }

MaxDecisions == 3

DecisionRelationBatches ==
    { << Relation("P1", "C1", "contains") >> \o relations :
        relations \in SeqsUpTo(DecisionRelationInputs, MaxDecisions) }

\* the state after main(), a createEntities and a createRelations call
InitDecisions ==
    /\ graph \in { createRelations(
                       createEntities(initializeStatusAndPriority(EmptyGraph).graph,
                                      DecisionEntities).graph,
                       relations).graph : relations \in DecisionRelationBatches }
    /\ sessionStates = EmptySessions
    /\ sessionKeys = <<>>
    /\ clock = 1
    /\ inflight = NoCalls
    /\ last = Started
    /\ repeatOf = <<>>

NextDecisions ==
    \/ DeleteRelationsOf({ << r >> : r \in DecisionRelationInputs })
    \/ AddObservationsOf({ << Observation("D0", << "Date:2" >>) >>,
                           << Observation("D1", << "Date:2" >>) >> })
    \/ GetDecisionHistory

SpecDecisions == InitDecisions /\ [][NextDecisions]_vars

(***************************************************************************)
(* Calls in flight: every manager method awaits loadGraph, computes on the *)
(* copy it got and awaits saveGraph; calls of several clients interleave   *)
(* at these awaits                                                          *)
(***************************************************************************)
\* the graph after main(), buildcontext of a project and its task, and a
\* status of the task
RaceGraph ==
    LET started == initializeStatusAndPriority(EmptyGraph).graph
        built == createEntities(started, << Entity("P1", "project", <<>>),
                                            Entity("T1", "task", <<>>) >>).graph
        linked == createRelations(built, << Relation("P1", "T1", "contains") >>).graph
    IN setEntityStatus(linked, "T1", "complete").graph

RaceCalls ==
    << [op |-> "createEntities", args |-> << Entity("T2", "task", <<>>) >>],
       [op |-> "createEntities", args |-> << Entity("T3", "task", <<>>) >>],
       [op |-> "setEntityStatus", args |-> << "T1", "active" >>],
       [op |-> "deleteEntities", args |-> << "T1" >>] >>

\* the part of a manager method between its loadGraph and its saveGraph
Compute(call, g) ==
    CASE call.op = "createEntities" -> createEntities(g, call.args)
      [] call.op = "setEntityStatus" -> setEntityStatus(g, call.args[1], call.args[2])
      [] call.op = "deleteEntities" -> deleteEntities(g, call.args)

\* the entities a call has added to the file
Created(call, out) == IF call.op = "createEntities" THEN out.ret ELSE <<>>

\* await this.loadGraph() of a mutating method
LoadOf(c, calls) ==
    /\ inflight[c].pc \in { "idle", "returned" }
    /\ \E k \in 1..Len(calls) :
          inflight' = [inflight EXCEPT ![c] =
                          [pc |-> "loaded", op |-> calls[k].op, args |-> calls[k].args,
                           local |-> graph, missed |-> <<>>]]
    /\ UNCHANGED <<graph, sessionStates, sessionKeys, clock, last, repeatOf>>

Load(c) == LoadOf(c, RaceCalls)

\* the rest of the method: the computation on the loaded copy, saveGraph and
\* the return.  missed of the other calls in flight notes the entities that
\* were created since they loaded, seen of a query in flight notes the
\* graphs that the file has held since it started.
Store(c) ==
    /\ inflight[c].pc = "loaded"
    /\ \E out \in { Compute(inflight[c], inflight[c].local) } :
          /\ Save(out)
          /\ Record(inflight[c].op, inflight[c].args, out)
          /\ inflight' =
                [d \in DOMAIN inflight |->
                    IF d = c
                    THEN [pc |-> "returned", op |-> inflight[c].op, args |-> inflight[c].args,
                          ok |-> out.ok, ret |-> out.ret, missed |-> inflight[c].missed]
                    ELSE IF inflight[d].pc = "loaded"
                    THEN [inflight[d] EXCEPT !.missed = @ \o Created(inflight[c], out)]
                    ELSE IF inflight[d].pc = "reading"
                    THEN [inflight[d] EXCEPT !.seen = @ \cup { saveGraph(graph, out.graph) }]
                    ELSE inflight[d]]
    /\ UNCHANGED <<sessionStates, sessionKeys, clock>>

\* the return of a query
Returned(call, out, seen) ==
    [pc |-> "returned", op |-> call.op, args |-> call.args,
     ok |-> out.ok, ret |-> out.ret, error |-> out.error, seen |-> seen]

ProjectInputs == { "P1" }

\* getProjectStatus up to its first await after loadGraph: the lists are
\* built from the loaded graph, and the method returns at once when the
\* project is missing or nothing is to be looked up
BeginProjectStatus(c) ==
    /\ inflight[c].pc \in { "idle", "returned" }
    /\ \E projectName \in ProjectInputs :
          \E call \in { [op |-> "getProjectStatus", args |-> projectName] } :
             IF \/ ~getProjectStatus(graph, projectName).ok
                \/ StatusLookups(ProjectLists(graph, projectName)) = <<>>
             THEN \E out \in { getProjectStatus(graph, projectName) } :
                     /\ inflight' = [inflight EXCEPT ![c] = Returned(call, out, { graph })]
                     /\ Record(call.op, call.args, out)
             ELSE /\ inflight' = [inflight EXCEPT ![c] =
                                     [pc |-> "reading", op |-> call.op, args |-> projectName,
                                      local |-> graph,
                                      todo |-> StatusLookups(ProjectLists(graph, projectName)),
                                      phase |-> "status",
                                      statuses |-> NoKeys, priorities |-> NoKeys,
                                      seen |-> { graph }]]
                  /\ UNCHANGED <<last, repeatOf>>
    /\ UNCHANGED <<graph, sessionStates, sessionKeys, clock>>

\* await this.getEntityStatus(entity.name): a load of the file of its own
ReadEntityStatus(c) ==
    /\ inflight[c].pc = "reading"
    /\ inflight[c].phase = "status"
    /\ inflight' = [inflight EXCEPT
                       ![c].statuses = SetIfTruthy(@, Head(inflight[c].todo).name,
                                                   getEntityStatus(graph, Head(inflight[c].todo).name)),
                       ![c].phase = "priority"]
    /\ UNCHANGED <<graph, sessionStates, sessionKeys, clock, last, repeatOf>>

\* await this.getEntityPriority(entity.name), and after the last one the
\* rest of getProjectStatus, computed on the graph loaded at the start
ReadEntityPriority(c) ==
    /\ inflight[c].pc = "reading"
    /\ inflight[c].phase = "priority"
    /\ \E priorities \in { SetIfTruthy(inflight[c].priorities, Head(inflight[c].todo).name,
                                       getEntityPriority(graph, Head(inflight[c].todo).name)) } :
          IF Tail(inflight[c].todo) = <<>>
          THEN \E out \in { Ok(graph, ProjectStatusResult(inflight[c].local, inflight[c].args,
                                                           inflight[c].statuses, priorities)) } :
                  /\ inflight' = [inflight EXCEPT ![c] = Returned(inflight[c], out, inflight[c].seen)]
                  /\ Record(inflight[c].op, inflight[c].args, out)
          ELSE /\ inflight' = [inflight EXCEPT ![c].priorities = priorities,
                                               ![c].todo = Tail(@),
                                               ![c].phase = "status"]
               /\ UNCHANGED <<last, repeatOf>>
    /\ UNCHANGED <<graph, sessionStates, sessionKeys, clock>>

SnapshotCalls ==
    << [op |-> "setEntityStatus", args |-> << "T1", "active" >>],
       [op |-> "deleteEntities", args |-> << "T1" >>] >>

NextSnapshot ==
    \/ \E c \in 1..MaxCalls : LoadOf(c, SnapshotCalls)
    \/ \E c \in 1..MaxCalls : Store(c)
    \/ \E c \in 1..MaxCalls : BeginProjectStatus(c)
    \/ \E c \in 1..MaxCalls : ReadEntityStatus(c)
    \/ \E c \in 1..MaxCalls : ReadEntityPriority(c)

InitRace ==
    /\ graph = RaceGraph
    /\ sessionStates = EmptySessions
    /\ sessionKeys = <<>>
    /\ clock = 1
    /\ inflight = NoCalls
    /\ last = Started
    /\ repeatOf = <<>>

NextRace ==
    \/ \E c \in 1..MaxCalls : Load(c)
    \/ \E c \in 1..MaxCalls : Store(c)

SpecRace == InitRace /\ [][NextRace]_vars

SpecSnapshot == InitRace /\ [][NextSnapshot]_vars

(***************************************************************************)
(* Session calls in flight: startsession, loadcontext and endsession await *)
(* loadSessionStates, work on the Map they got and await saveSessionStates *)
(* with that Map; calls of several clients interleave at these awaits      *)
(***************************************************************************)
\* loadcontext for a session that startsession never returned
FlightLoadInputs == { << "P1", "project", "dev_0_b" >> }

\* endsession on the session that is started first: a summary stage and the
\* final assembly
FlightCalls ==
    { OnSession(call, SessionIdsByTime[1]) :
        call \in { SummaryOf("P1") } \cup { a \in AssemblyCalls : ~a.nextStageNeeded } }

\* a call that has got its Map: local holds the sessions, keys their order,
\* result the stage result of an endsession call
Loaded(op, args) ==
    [pc |-> "loaded", op |-> op, args |-> args, local |-> sessionStates, keys |-> sessionKeys,
     result |-> Undefined]

\* the call of client c with the Map after sessionStates.set
Holding(c, pc, sessions) ==
    [inflight EXCEPT ![c].pc = pc, ![c].local = sessions,
                     ![c].keys = KeysAfter(@, DOMAIN sessions)]

\* the call of client c has returned
Done(c, out) == [inflight EXCEPT ![c] = Idle]

\* await saveSessionStates(sessionStates) of client c: the file holds the
\* Map of the call, whatever it held before
WriteSessions(c, sessions) ==
    /\ sessionStates' = sessions
    /\ sessionKeys' = KeysAfter(inflight[c].keys, DOMAIN sessions)

\* startsession: generateSessionId() and await loadSessionStates()
LoadStart(c) ==
    /\ inflight[c].pc \in { "idle", "returned" }
    /\ clock <= MaxStarted
    /\ clock <= Len(SessionIdsByTime)
    /\ inflight' = [inflight EXCEPT ![c] = Loaded("startsession", SessionIdsByTime[clock])]
    /\ clock' = clock + 1
    /\ UNCHANGED <<graph, sessionStates, sessionKeys, last, repeatOf>>

\* startsession: the new session is set, the Map is saved, the call returns
StoreStart(c) ==
    /\ inflight[c].pc = "loaded"
    /\ inflight[c].op = "startsession"
    /\ \E out \in { startsession(inflight[c].local, inflight[c].keys, graph, inflight[c].args) } :
          /\ WriteSessions(c, out.sessionStates)
          /\ Record("startsession", <<>>, out)
          /\ inflight' = Done(c, out)
    /\ UNCHANGED <<graph, clock>>

\* loadcontext with a session: await loadSessionStates()
LoadForContext(c) ==
    /\ inflight[c].pc \in { "idle", "returned" }
    /\ \E input \in FlightLoadInputs :
          inflight' = [inflight EXCEPT ![c] = Loaded("loadcontext", input)]
    /\ UNCHANGED <<graph, sessionStates, sessionKeys, clock, last, repeatOf>>

\* loadcontext: a session that the Map lacks is set and the Map is saved
InitContext(c) ==
    /\ inflight[c].pc = "loaded"
    /\ inflight[c].op = "loadcontext"
    /\ inflight[c].args[3] \notin DOMAIN inflight[c].local
    /\ \E sessions \in { SetSession(inflight[c].local, inflight[c].args[3], <<>>) } :
          /\ WriteSessions(c, sessions)
          /\ inflight' = Holding(c, "loaded", sessions)
    /\ UNCHANGED <<graph, clock, last, repeatOf>>

\* loadcontext: the load event is pushed and the Map is saved
TrackContext(c) ==
    /\ inflight[c].pc = "loaded"
    /\ inflight[c].op = "loadcontext"
    /\ inflight[c].args[3] \in DOMAIN inflight[c].local
    /\ \E sessions \in { TrackLoad(inflight[c].local, inflight[c].args[1], inflight[c].args[2],
                                   inflight[c].args[3], clock) } :
          /\ LogSize(sessions, DOMAIN sessions) <= MaxFlight
          /\ WriteSessions(c, sessions)
          /\ inflight' = Holding(c, "tracked", sessions)
    /\ UNCHANGED <<graph, clock, last, repeatOf>>

\* loadcontext: the graph is read and the call returns
ReturnContext(c) ==
    /\ inflight[c].pc = "tracked"
    /\ \E out \in { loadcontext(inflight[c].local, graph, inflight[c].args[1],
                                inflight[c].args[2], "", clock) } :
          /\ Record("loadcontext", inflight[c].args, out)
          /\ inflight' = Done(c, out)
    /\ UNCHANGED <<graph, sessionStates, sessionKeys, clock>>

\* endsession: await loadSessionStates()
LoadEnd(c) ==
    /\ inflight[c].pc \in { "idle", "returned" }
    /\ \E params \in FlightCalls :
          inflight' = [inflight EXCEPT ![c] = Loaded("endsession", params)]
    /\ UNCHANGED <<graph, sessionStates, sessionKeys, clock, last, repeatOf>>

\* endsession is called for the final assembly
IsFinal(params) == params.stage = "assembly" /\ ~params.nextStageNeeded

\* endsession: the session check, processStage, the store of the stage and
\* the save of the Map; the call returns here unless it is the final
\* assembly
StoreEnd(c) ==
    /\ inflight[c].pc = "loaded"
    /\ inflight[c].op = "endsession"
    /\ \E params \in { inflight[c].args }, local \in { inflight[c].local } :
          IF \/ params.sessionId \notin DOMAIN local
             \/ ~processStage(params, local[params.sessionId]).ok
          THEN \E out \in { endsession(local, graph, params, clock) } :
                  /\ Record("endsession", params, out)
                  /\ inflight' = Done(c, out)
                  /\ UNCHANGED <<sessionStates, sessionKeys>>
          ELSE \E sessions \in
                    { [local EXCEPT ![params.sessionId] =
                          storeStage(@, params, processStage(params, @).ret)] } :
                  /\ LogSize(sessions, DOMAIN sessions) + (IF IsFinal(params) THEN 1 ELSE 0)
                        <= MaxFlight
                  /\ WriteSessions(c, sessions)
                  /\ IF IsFinal(params)
                     THEN /\ inflight' =
                                [Holding(c, "stored", sessions) EXCEPT ![c].result =
                                    processStage(params, local[params.sessionId]).ret]
                          /\ UNCHANGED <<last, repeatOf>>
                     ELSE \E out \in { endsession(local, graph, params, clock) } :
                             /\ Record("endsession", params, out)
                             /\ inflight' = Done(c, out)
    /\ UNCHANGED <<graph, clock>>

\* endsession, the final assembly: the graph writes, then session_completed
\* is pushed and the Map that the call loaded is saved again
CommitEnd(c) ==
    /\ inflight[c].pc = "stored"
    /\ \E params \in { inflight[c].args }, local \in { inflight[c].local } :
          \E out \in { endsessionCommitted(local, params, local[params.sessionId],
                                           inflight[c].result.stageData,
                                           commitSession(graph, inflight[c].result.stageData, clock),
                                           clock) } :
             /\ IF out.ok
                THEN WriteSessions(c, out.sessionStates)
                ELSE UNCHANGED <<sessionStates, sessionKeys>>
             /\ Save(out)
             /\ Record("endsession", params, out)
             /\ inflight' = Done(c, out)
    /\ UNCHANGED clock

NextFlight ==
    \/ \E c \in 1..MaxCalls : LoadStart(c)
    \/ \E c \in 1..MaxCalls : StoreStart(c)
    \/ \E c \in 1..MaxCalls : LoadForContext(c)
    \/ \E c \in 1..MaxCalls : InitContext(c)
    \/ \E c \in 1..MaxCalls : TrackContext(c)
    \/ \E c \in 1..MaxCalls : ReturnContext(c)
    \/ \E c \in 1..MaxCalls : LoadEnd(c)
    \/ \E c \in 1..MaxCalls : StoreEnd(c)
    \/ \E c \in 1..MaxCalls : CommitEnd(c)

\* the state at time 2, after main(), createEntities of the project and a
\* startsession at time 1
InitFlight ==
    /\ graph = createEntities(initializeStatusAndPriority(EmptyGraph).graph,
                              << Entity("P1", "project", <<>>) >>).graph
    /\ sessionStates = [id \in { SessionIdsByTime[1] } |-> <<>>]
    /\ sessionKeys = << SessionIdsByTime[1] >>
    /\ clock = 2
    /\ inflight = NoCalls
    /\ last = Started
    /\ repeatOf = <<>>

SpecFlight == InitFlight /\ [][NextFlight]_vars

(***************************************************************************)
(* Claims                                                                  *)
(***************************************************************************)
EntityIdx(g) == 1..Len(g.entities)

RelationIdx(g) == 1..Len(g.relations)

\* the positions of the relations of type rt that leave entity n
Outgoing(g, n, rt) ==
    { i \in RelationIdx(g) : g.relations[i].from = n /\ g.relations[i].relationType = rt }

NamesInUse(g) ==
    { g.entities[i].name : i \in EntityIdx(g) }
        \cup { g.relations[i].from : i \in RelationIdx(g) }
        \cup NameInputs \cup DeleteNameInputs

\* C1: in every reachable state every relation's 'from' and 'to' name an
\* entity of the graph (no dangling edge).
C1_NoDanglingEdge ==
    \A i \in RelationIdx(graph) :
        /\ \E j \in EntityIdx(graph) : graph.entities[j].name = graph.relations[i].from
        /\ \E j \in EntityIdx(graph) : graph.entities[j].name = graph.relations[i].to

\* C3: in every reachable state no two entities have the same name.
C3_UniqueEntityNames ==
    \A i, j \in EntityIdx(graph) :
        i # j => graph.entities[i].name # graph.entities[j].name

\* C4: a second createEntities call with the identical batch leaves the
\* entity set unchanged, returns no created entity, and the graph holds no
\* two entities with a name of the batch.
C4_CreateEntitiesIdempotent ==
    [][ (/\ last.op = "createEntities" /\ last.ok
         /\ last'.op = "createEntities" /\ last'.args = last.args)
        => /\ last'.ok
           /\ last'.ret = <<>>
           /\ graph'.entities = graph.entities
           /\ \A k \in 1..Len(last'.args) :
                Cardinality({ i \in EntityIdx(graph') :
                                graph'.entities[i].name = last'.args[k].name }) <= 1
      ]_vars

\* C5: creating a relation whose triple is already in the graph changes
\* nothing, and the graph never holds two relations with the same triple.
C5_RelationTripleUnique ==
    /\ [][ (/\ last'.op = "createRelations"
            /\ \A k \in 1..Len(last'.args) :
                 \E i \in RelationIdx(graph) : graph.relations[i] = last'.args[k])
           => graph' = graph ]_vars
    /\ [](\A i, j \in RelationIdx(graph) :
             i # j => graph.relations[i] # graph.relations[j])

\* the original statement of C2: in every reachable state each name is the
\* 'from' of at most one has_status and at most one has_priority relation.
AtMostOneStatusAndPriority(g) ==
    \A i \in RelationIdx(g) :
        /\ Cardinality(Outgoing(g, g.relations[i].from, "has_status")) <= 1
        /\ Cardinality(Outgoing(g, g.relations[i].from, "has_priority")) <= 1

C2_AtMostOneStatusAndPriority == AtMostOneStatusAndPriority(graph)

\* a createRelations call whose batch itself holds a has_status or a
\* has_priority relation
WritesStatusOrPriority(call) ==
    /\ call.op = "createRelations"
    /\ \E k \in 1..Len(call.args) :
          call.args[k].relationType \in { "has_status", "has_priority" }

\* C2 (amended): the graph starts with at most one has_status and at most
\* one has_priority relation per entity, and every operation other than a
\* createRelations call that is itself given has_status or has_priority
\* relations (the setters, the session commit, creations, deletions, a
\* restart) keeps it so.
C2_SettersKeepAtMostOne ==
    /\ AtMostOneStatusAndPriority(graph)
    /\ [][ (AtMostOneStatusAndPriority(graph) /\ ~WritesStatusOrPriority(last'))
           => AtMostOneStatusAndPriority(graph') ]_vars

\* C2 witness: a session commit has replaced the status of a task that had
\* a status and a priority
C2_Witness ==
    /\ last.op = "endsession" /\ last.ok /\ last.ret.sessionRecorded
    /\ \E i \in RelationIdx(graph) :
          graph.relations[i] = Relation("T1", "status:complete", "has_status")
    /\ \E i \in RelationIdx(graph) :
          graph.relations[i] = Relation("T1", "priority:high", "has_priority")
    /\ \E i \in RelationIdx(graph) :
          graph.relations[i] = Relation("T2", "status:active", "has_status")

\* a relation that createRelations must refuse on graph g
Refused(g, r) ==
    \/ \A k \in 1..Len(VALID_RELATION_TYPES) : VALID_RELATION_TYPES[k] # r.relationType
    \/ \A j \in EntityIdx(g) : g.entities[j].name # r.from
    \/ \A j \in EntityIdx(g) : g.entities[j].name # r.to

\* C6: a createRelations batch holding a relation of unrecognised type or
\* with a missing endpoint fails, names that type or endpoint, and leaves
\* the graph unchanged.
C6_CreateRelationsAllOrNothing ==
    [][ (/\ last'.op = "createRelations"
         /\ \E k \in 1..Len(last'.args) : Refused(graph, last'.args[k]))
        => /\ ~last'.ok
           /\ graph' = graph
           /\ \E k \in 1..Len(last'.args) :
                LET r == last'.args[k] IN
                \/ /\ last'.error = [kind |-> "InvalidRelationType", value |-> r.relationType]
                   /\ ~validateRelationType(r.relationType)
                \/ /\ last'.error = [kind |-> "SourceEntityMissing", value |-> r.from]
                   /\ ~HasEntity(graph, r.from)
                \/ /\ last'.error = [kind |-> "TargetEntityMissing", value |-> r.to]
                   /\ ~HasEntity(graph, r.to)
      ]_vars

\* a failed batch that also held a relation the graph would have accepted
C6_Witness ==
    /\ last.op = "createRelations" /\ ~last.ok
    /\ \E k \in 1..Len(last.args) :
         /\ ~Refused(graph, last.args[k])
         /\ \A i \in RelationIdx(graph) : graph.relations[i] # last.args[k]

\* C7: a createEntities batch holding an entity of unrecognised type fails
\* and adds no entity of the batch; the graph is unchanged.
C7_CreateEntitiesAllOrNothing ==
    [][ (/\ last'.op = "createEntities"
         /\ \E k \in 1..Len(last'.args) :
              \A t \in 1..Len(VALID_ENTITY_TYPES) :
                 VALID_ENTITY_TYPES[t] # last'.args[k].entityType)
        => /\ ~last'.ok
           /\ last'.error.kind = "InvalidEntityType"
           /\ \E k \in 1..Len(last'.args) :
                /\ last'.error.value = last'.args[k].entityType
                /\ ~validateEntityType(last'.args[k].entityType)
           /\ graph' = graph
      ]_vars

\* a failed batch that also held a valid entity whose name is free
C7_Witness ==
    /\ last.op = "createEntities" /\ ~last.ok
    /\ \E k \in 1..Len(last.args) :
         /\ validateEntityType(last.args[k].entityType)
         /\ ~HasEntity(graph, last.args[k].name)

\* C8: after two successful setEntityStatus (setEntityPriority) calls in a
\* row on one entity, exactly one has_status (has_priority) relation leaves
\* the entity and it points to the value of the second call.
C8_SetTwiceLeavesOne ==
    (/\ last.op \in Setters /\ last.ok
     /\ repeatOf # <<>> /\ repeatOf[1] = last.args[1])
    => LET rt == IF last.op = "setEntityStatus" THEN "has_status" ELSE "has_priority"
           target == (IF last.op = "setEntityStatus" THEN "status:" ELSE "priority:")
                        \o last.args[2]
           out == Outgoing(graph, last.args[1], rt)
       IN /\ Cardinality(out) = 1
          /\ \A i \in out : graph.relations[i].to = target

C8_Witness ==
    /\ last.op = "setEntityStatus" /\ last.ok
    /\ repeatOf # <<>> /\ repeatOf[1] = last.args[1] /\ repeatOf[2] # last.args[2]

\* C9: after a successful setEntityStatus(e, v), getEntityStatus(e) is v;
\* getEntityStatus(e) is null exactly when no has_status relation leaves e.
\* The same for priority.
C9_StatusRoundTrip ==
    /\ (last.op = "setEntityStatus" /\ last.ok)
          => getEntityStatus(graph, last.args[1]) = last.args[2]
    /\ (last.op = "setEntityPriority" /\ last.ok)
          => getEntityPriority(graph, last.args[1]) = last.args[2]
    /\ \A n \in NamesInUse(graph) :
          /\ (getEntityStatus(graph, n) = Null) <=> (Outgoing(graph, n, "has_status") = {})
          /\ (getEntityPriority(graph, n) = Null) <=> (Outgoing(graph, n, "has_priority") = {})

\* a status was set over relations that were there before, while another
\* name has none
C9_Witness ==
    /\ last.op = "setEntityStatus" /\ last.ok
    /\ getEntityStatus(graph, last.args[1]) = "complete"
    /\ Len(graph.relations) >= 2
    /\ \E n \in NamesInUse(graph) : getEntityStatus(graph, n) = Null

\* C10: deleteEntities(names) leaves no entity named in names and no
\* relation touching names, and keeps every other entity and relation, in
\* order.
C10_DeleteEntitiesCascades ==
    [][ last'.op = "deleteEntities"
        => LET names == { last'.args[k] : k \in 1..Len(last'.args) } IN
           /\ \A i \in EntityIdx(graph') : graph'.entities[i].name \notin names
           /\ \A i \in RelationIdx(graph') :
                graph'.relations[i].from \notin names /\ graph'.relations[i].to \notin names
           /\ graph'.entities = SelectSeq(graph.entities, LAMBDA e : e.name \notin names)
           /\ graph'.relations =
                SelectSeq(graph.relations, LAMBDA r : r.from \notin names /\ r.to \notin names)
      ]_vars

\* a deletion after which an entity and a relation are left
C10_Witness ==
    /\ last.op = "deleteEntities" /\ ArrayIncludes(last.args, "status:active")
    /\ HasEntity(graph, "T1") /\ HasEntity(graph, "P1")
    /\ Len(graph.relations) > 0

\* the names of the entities of a search result
ReturnedNames(result) == { result.entities[i].name : i \in 1..Len(result.entities) }

\* C11: the result of searchNodes and of openNodes is closed: every relation
\* returned has both endpoints among the entities returned, and every stored
\* relation with both endpoints among the entities returned is returned.
C11_SearchResultClosed ==
    last.op \in { "searchNodes", "openNodes" } =>
        /\ \A k \in 1..Len(last.ret.relations) :
              /\ last.ret.relations[k].from \in ReturnedNames(last.ret)
              /\ last.ret.relations[k].to \in ReturnedNames(last.ret)
        /\ \A i \in RelationIdx(graph) :
              (/\ graph.relations[i].from \in ReturnedNames(last.ret)
               /\ graph.relations[i].to \in ReturnedNames(last.ret))
              => \E k \in 1..Len(last.ret.relations) :
                    last.ret.relations[k] = graph.relations[i]

\* C11 witness: openNodes returned a relation and left out a stored relation
\* that leaves a returned entity for an entity that was not returned
C11_Witness ==
    /\ last.op = "openNodes"
    /\ last.ret.relations # <<>>
    /\ \E i \in RelationIdx(graph) :
          /\ graph.relations[i].from \in ReturnedNames(last.ret)
          /\ graph.relations[i].to \notin ReturnedNames(last.ret)

\* the names of the status and priority entities
SingletonNames ==
    { "status:" \o VALID_STATUS_VALUES[i] : i \in 1..Len(VALID_STATUS_VALUES) }
        \cup { "priority:" \o VALID_PRIORITY_VALUES[i] : i \in 1..Len(VALID_PRIORITY_VALUES) }

\* C12: after initializeStatusAndPriority, on whatever graph it ran, each
\* status and priority entity (status:<v>, priority:<v> for the legal values)
\* is in the graph exactly once.
C12_SingletonsExactlyOnce ==
    last.op = "main" =>
        \A n \in SingletonNames :
            Cardinality({ i \in EntityIdx(graph) : graph.entities[i].name = n }) = 1

\* C13: a createEntities call that saves after another call has saved since
\* its load reports success and overwrites the other call's change: an
\* entity the other call created, which the saving call had not loaded and
\* does not create itself, is not in the persisted graph any more.
C13_LostUpdate ==
    [][ \A c \in 1..MaxCalls :
           (/\ inflight[c].pc = "loaded" /\ inflight[c].op = "createEntities"
            /\ inflight'[c].pc = "returned")
           => /\ inflight'[c].ok
              /\ \A k \in 1..Len(inflight[c].missed) :
                    (/\ \A j \in 1..Len(inflight[c].args) :
                          inflight[c].args[j].name # inflight[c].missed[k].name
                     /\ ~HasEntity(inflight[c].local, inflight[c].missed[k].name))
                    => \A i \in EntityIdx(graph') :
                          graph'.entities[i].name # inflight[c].missed[k].name
      ]_vars

\* C13 witness: two createEntities calls have both returned the entity they
\* created, and the entity of the one that saved first is not in the graph
C13_Witness ==
    \E c, d \in 1..MaxCalls :
        /\ c # d
        /\ inflight[c].pc = "returned" /\ inflight[c].op = "createEntities"
        /\ inflight[d].pc = "returned" /\ inflight[d].op = "createEntities"
        /\ inflight[c].ok /\ inflight[d].ok
        /\ inflight[c].ret # <<>> /\ inflight[d].ret # <<>>
        /\ inflight[d].missed = inflight[c].ret
        /\ last.args = inflight[d].args
        /\ \A i \in EntityIdx(graph) : graph.entities[i].name # inflight[c].ret[1].name

\* C14: the result of getProjectStatus is the result the method computes
\* from one graph that the file held while the call ran: its entity lists,
\* its statuses and priorities and its active lists all agree with that one
\* graph.
C14_QueryFromOneGraph ==
    \A c \in 1..MaxCalls :
        (inflight[c].pc = "returned" /\ inflight[c].op = "getProjectStatus" /\ inflight[c].ok)
        => \E h \in inflight[c].seen :
              /\ getProjectStatus(h, inflight[c].args).ok
              /\ getProjectStatus(h, inflight[c].args).ret = inflight[c].ret

\* a step that is an endsession call of the assembly stage with
\* nextStageNeeded = false on a known session
CommitStep ==
    /\ last'.op = "endsession"
    /\ sessionStates' # sessionStates
    /\ last'.args.stage = "assembly" /\ ~last'.args.nextStageNeeded
    /\ last'.args.sessionId \in DOMAIN sessionStates

\* the arguments that the commit of this step works on
CommitArgs == assembleEndSessionArgs(sessionStates[last'.args.sessionId])

IsTask(g, n) == Some(g.entities, LAMBDA e : e.name = n /\ e.entityType = "task")

\* C15: a session commit gives every task update that names an existing task
\* entity its mapped status, and a 'resolves' relation from the focus to the
\* task when that status is complete.
C15_CommitAppliesTaskUpdates ==
    [][ CommitStep =>
          \A k \in 1..Len(JSONParse(CommitArgs.taskUpdates)) :
             LET task == JSONParse(CommitArgs.taskUpdates)[k] IN
             IsTask(graph, task.name) =>
                /\ getEntityStatus(graph', task.name) = TaskStatusValue(task.status)
                /\ TaskStatusValue(task.status) = "complete" =>
                      \E i \in RelationIdx(graph') :
                         graph'.relations[i] = Relation(CommitArgs.focus, task.name, "resolves")
      ]_vars

\* C16: a session commit on a known session always ends by appending a
\* session_completed record to the log of the session and reports the
\* session as recorded.
C16_CommitAlwaysRecorded ==
    [][ CommitStep =>
          /\ last'.ok
          /\ last'.ret.sessionRecorded
          /\ LET log == sessionStates'[last'.args.sessionId]
             IN log[Len(log)].type = "session_completed"
      ]_vars

\* the entities of graph g with name n
Named(g, n) == { i \in EntityIdx(g) : g.entities[i].name = n }

\* what C17 says of a commit with the achievement strings given: a new
\* decision entity for each of them, with the string as its observation,
\* and a 'contains' relation from the focus to it
AchievementsRecorded(before, after, focus, achievements, now) ==
    /\ Len(after.entities) >= Len(before.entities) + Len(achievements)
    /\ \A k \in 1..Len(achievements) :
          /\ Named(before, AchievementName(now, k)) = {}
          /\ \E i \in Named(after, AchievementName(now, k)) :
                /\ after.entities[i].entityType = "decision"
                /\ after.entities[i].observations = << achievements[k] >>
          /\ \E i \in RelationIdx(after) :
                after.relations[i] = Relation(focus, AchievementName(now, k), "contains")

HasRelation(g, r) == \E i \in RelationIdx(g) : g.relations[i] = r

Declared(task, key) == Has(task, key) /\ Truthy(task[key])

\* what C18 says of one new task after the commit
NewTaskSetUp(before, after, projectName, task) ==
    /\ IsTask(after, task.name)
    /\ getEntityStatus(after, task.name) = "active"
    /\ getEntityPriority(after, task.name) =
          IF ~Declared(task, "priority") THEN Null
          ELSE IF ToLowerCase(task.priority) = "high" THEN "high" ELSE "low"
    /\ (Declared(task, "precedes") /\ HasEntity(before, task.precedes))
          => HasRelation(after, Relation(task.name, task.precedes, "precedes"))
    /\ (Declared(task, "follows") /\ HasEntity(before, task.follows))
          => HasRelation(after, Relation(task.follows, task.name, "precedes"))
    /\ HasRelation(after, Relation(projectName, task.name, "contains"))

\* C18: a session commit whose project is an entity of the graph creates a
\* task entity for every new task that is not in the graph yet, with status
\* active, with priority high when 'high' is supplied in any case, low when
\* another priority is supplied and none otherwise, with a 'precedes'
\* relation to its declared successor and from its declared predecessor
\* (for those that are entities of the graph), and with a 'contains'
\* relation from the project.
C18_CommitSetsUpNewTasks ==
    [][ (CommitStep /\ HasEntity(graph, CommitArgs.projectName))
        => \A k \in 1..Len(JSONParse(CommitArgs.newTasks)) :
              Named(graph, JSONParse(CommitArgs.newTasks)[k].name) = {}
              => NewTaskSetUp(graph, graph', CommitArgs.projectName,
                              JSONParse(CommitArgs.newTasks)[k]) ]_vars

AnalysisStagesOf(log) == SelectSeq(log, LAMBDA item : item.type = "analysis_stage")

\* the step is an endsession call that revises stage k of the session
RevisionStep ==
    /\ last'.op = "endsession" /\ last'.ok
    /\ Has(last'.args, "isRevision") /\ last'.args.isRevision
    /\ Has(last'.args, "revisesStage")
    /\ last'.args.sessionId \in DOMAIN sessionStates

\* the record that the call of the step stores
StoredStage == AnalysisStage(processStage(last'.args, <<>>).ret)

\* C19: an endsession call with isRevision and revisesStage = k replaces the
\* k-th analysis_stage record of the session when k is at most the number of
\* analysis_stage records, which stays as it was, and every other
\* analysis_stage record keeps its place; when k is larger, the new stage is
\* appended and the number grows by one.
C19_RevisionByPosition ==
    [][ RevisionStep
        => LET before == AnalysisStagesOf(sessionStates[last'.args.sessionId])
               after == AnalysisStagesOf(sessionStates'[last'.args.sessionId])
               k == last'.args.revisesStage
           IN IF k <= Len(before)
              THEN after = [before EXCEPT ![k] = StoredStage]
              ELSE after = Append(before, StoredStage) ]_vars

\* a revision of stage 1 has replaced the first of at least two stages of a
\* session that was committed before
C19_Witness ==
    /\ last.op = "endsession" /\ last.ok
    /\ Has(last.args, "isRevision") /\ last.args.isRevision
    /\ last.args.revisesStage = 1
    /\ LET log == sessionStates[SessionId]
       IN /\ Len(AnalysisStagesOf(log)) >= 2
          /\ AnalysisStagesOf(log)[1].stage = last.args.stage
          /\ AnalysisStagesOf(log)[1].stageData = last.args.stageData
          /\ AnalysisStagesOf(log)[2].stage # last.args.stage
          /\ \E i \in 1..Len(log) : log[i].type = "session_completed"

\* the most recent record of a stage, as a one-element or empty array
LastStage(stages, name) ==
    LET found == SelectSeq(stages, LAMBDA s : Has(s, "stage") /\ s.stage = name)
    IN IF found = <<>> THEN <<>> ELSE << found[Len(found)] >>

\* the arguments synthesized from the most recent record of each stage name
MostRecentArgs(stages) ==
    [summary |-> StageStr(LastStage(stages, "summary"), "summary", ""),
     duration |-> StageStr(LastStage(stages, "summary"), "duration", "unknown"),
     focus |-> StageStr(LastStage(stages, "summary"), "focus", ""),
     achievements |-> JSONStringify(StageArr(LastStage(stages, "achievements"), "achievements")),
     taskUpdates |-> JSONStringify(StageArr(LastStage(stages, "taskUpdates"), "taskUpdates")),
     projectName |-> StageStr(LastStage(stages, "projectStatus"), "projectName", ""),
     projectStatus |-> StageStr(LastStage(stages, "projectStatus"), "projectStatus", ""),
     projectObservation |->
        StageStr(LastStage(stages, "projectStatus"), "projectObservation", ""),
     newTasks |-> JSONStringify(StageArr(LastStage(stages, "newTasks"), "newTasks"))]

\* the step is an assembly stage that more stages follow: its record is the
\* last of the session
AssemblyStep ==
    /\ last'.op = "endsession" /\ last'.ok
    /\ last'.args.stage = "assembly" /\ last'.args.nextStageNeeded
    /\ last'.args.sessionId \in DOMAIN sessionStates
    /\ sessionStates' # sessionStates

\* C20: the assembly stage synthesizes its data from the most recent record
\* of each stage name: of several records of the same stage the assembled
\* arguments take the values of the last-recorded one, and a field whose
\* stage was never recorded takes its default.
C20_AssemblyTakesMostRecent ==
    [][ AssemblyStep
        => LET stages == sessionStates[last'.args.sessionId]
               assembled == sessionStates'[last'.args.sessionId]
           IN assembled[Len(assembled)].stageData = MostRecentArgs(stages) ]_vars

\* the step is an endsession call
EndsessionStep == last'.op = "endsession"

\* C21: an endsession call, of any stage and a commit too, with a session
\* identifier that is not in the session log fails with a not-found error
\* and changes neither the session log nor the graph.
C21_UnknownSessionRefused ==
    [][ (EndsessionStep /\ last'.args.sessionId \notin DOMAIN sessionStates)
        => /\ ~last'.ok
           /\ last'.error.kind = "SessionNotFound"
           /\ ~last'.ret.success
           /\ sessionStates' = sessionStates
           /\ graph' = graph ]_vars

\* a commit on a session that was never started was refused while another
\* session holds records
C21_Witness ==
    /\ last.op = "endsession" /\ ~last.ok
    /\ last.error.kind = "SessionNotFound"
    /\ last.args.stage = "assembly" /\ ~last.args.nextStageNeeded
    /\ last.args.sessionId \notin DOMAIN sessionStates
    /\ \E id \in DOMAIN sessionStates : sessionStates[id] # <<>>

\* the six stage names of the workflow
SixStages == StageNames \cup { "assembly" }

\* C22: an endsession call whose stage name is none of the six fails with
\* an error that names the stage and leaves the session log and the graph
\* as they were: no record is appended or replaced.
C22_UnknownStageRefused ==
    [][ (EndsessionStep /\ last'.args.stage \notin SixStages)
        => /\ ~last'.ok
           /\ ~last'.ret.success
           /\ last'.args.sessionId \in DOMAIN sessionStates
                 => last'.error = [kind |-> "UnknownStage", value |-> last'.args.stage]
           /\ sessionStates' = sessionStates
           /\ graph' = graph ]_vars

\* a call with an unknown stage was refused on a session that holds records
C22_Witness ==
    /\ last.op = "endsession" /\ ~last.ok
    /\ last.error.kind = "UnknownStage"
    /\ last.args.sessionId \in DOMAIN sessionStates
    /\ sessionStates[last.args.sessionId] # <<>>

\* C23: every record of every session is an analysis_stage record of one of
\* the six named stages or a session_completed marker.
C23_RecordsAreStagesOrCompletion ==
    \A id \in DOMAIN sessionStates :
        \A i \in 1..Len(sessionStates[id]) :
            \/ /\ sessionStates[id][i].type = "analysis_stage"
               /\ sessionStates[id][i].stage \in SixStages
            \/ sessionStates[id][i].type = "session_completed"

CompletionsOf(log) == SelectSeq(log, LAMBDA item : item.type = "session_completed")

C25_CompletionIsLast ==
    \A id \in DOMAIN sessionStates :
        \A i \in 1..Len(sessionStates[id]) :
            sessionStates[id][i].type = "session_completed" => i = Len(sessionStates[id])

\* C26: no entity's observation list contains the same string twice.
C26_ObservationsDistinct ==
    \A i \in EntityIdx(graph) :
        \A j, k \in 1..Len(graph.entities[i].observations) :
            graph.entities[i].observations[j] = graph.entities[i].observations[k] => j = k

\* the names of the task entities with a related_to relation to the milestone
TasksOfMilestone(g, milestoneName) ==
    { g.entities[i].name : i \in { j \in EntityIdx(g) :
          /\ g.entities[j].entityType = "task"
          /\ HasRelation(g, Relation(g.entities[j].name, milestoneName, "related_to")) } }

CompleteTasksOf(g, milestoneName) ==
    { name \in TasksOfMilestone(g, milestoneName) : getEntityStatus(g, name) = "complete" }

\* the nearest integer to 100 * completed / total: the p with
\* |100 * completed - p * total| at most total / 2
Nearest(p, completed, total) ==
    /\ 2 * (100 * completed - p * total) <= total
    /\ 2 * (p * total - 100 * completed) <= total

\* the query of the progress of a milestone has returned
ProgressReturned == last.op = "getMilestoneProgress" /\ last.ok

\* C27: getMilestoneProgress reports percentage = round(100 x completed /
\* total), where total is the number of task entities with a related_to
\* relation to the milestone and completed the number of those whose status
\* is complete, and 0 when total is 0; the percentage is between 0 and 100.
C27_PercentageOfTasks ==
    ProgressReturned
    => LET total == Cardinality(TasksOfMilestone(graph, last.args[1]))
           completed == Cardinality(CompleteTasksOf(graph, last.args[1]))
       IN /\ last.ret.progress.percentage \in 0..100
          /\ total = 0 => last.ret.progress.percentage = 0
          /\ total > 0 => Nearest(last.ret.progress.percentage, completed, total)

\* C28: getMilestoneProgress reports complete = true if and only if the
\* milestone has at least one task and the status of every task is exactly
\* complete; a task without status is counted as not started and makes
\* complete false; the completed, in-progress and not-started counts sum to
\* the total.
C28_CompleteIffAllComplete ==
    ProgressReturned
    => LET tasks == TasksOfMilestone(graph, last.args[1])
           progress == last.ret.progress
       IN /\ progress.complete
                <=> (tasks # {} /\ \A name \in tasks : getEntityStatus(graph, name) = "complete")
          /\ \A name \in tasks :
                getEntityStatus(graph, name) = Null
                => /\ Some(last.ret.tasks.notStarted, LAMBDA t : t.name = name)
                   /\ ~Some(last.ret.tasks.completed, LAMBDA t : t.name = name)
                   /\ ~Some(last.ret.tasks.inProgress, LAMBDA t : t.name = name)
                   /\ ~progress.complete
          /\ progress.completedTasks = Len(last.ret.tasks.completed)
          /\ progress.inProgressTasks = Len(last.ret.tasks.inProgress)
          /\ progress.notStartedTasks = Len(last.ret.tasks.notStarted)
          /\ progress.completedTasks + progress.inProgressTasks + progress.notStartedTasks
                = progress.totalTasks

\* the progress of a milestone with three tasks was returned: two are
\* complete and one has no status
C28_Witness ==
    /\ ProgressReturned
    /\ TasksOfMilestone(graph, last.args[1]) = { "T1", "T2", "T3" }
    /\ getEntityStatus(graph, "T1") = "complete"
    /\ getEntityStatus(graph, "T2") = "complete"
    /\ getEntityStatus(graph, "T3") = Null
    /\ ~last.ret.progress.complete
    /\ last.ret.progress.notStartedTasks = 1

\* the entity has no has_status relation
NoStatusRelation(g, name) ==
    ~Some(g.relations, LAMBDA r : r.from = name /\ r.relationType = "has_status")

\* what C29 says of a list of collected entities and its active list, with
\* Unknown saying which entities count as without status
ActiveListOf(all, active, Unknown(_)) ==
    active = SelectSeq(all, LAMBDA e : \/ getEntityStatus(graph, e.name) = "active"
                                       \/ Unknown(e.name))

\* the lists of the result last returned
ActiveLists(Unknown(_)) ==
    /\ (last.op = "getProjectStatus" /\ last.ok)
          => /\ ActiveListOf(last.ret.allFeatures, last.ret.activeFeatures, Unknown)
             /\ ActiveListOf(last.ret.allTasks, last.ret.activeTasks, Unknown)
             /\ ActiveListOf(last.ret.allIssues, last.ret.activeIssues, Unknown)
             /\ ActiveListOf(last.ret.allMilestones, last.ret.upcomingMilestones, Unknown)
    /\ (last.op = "getComponentContext" /\ last.ok)
          => /\ ActiveListOf(last.ret.allIssues, last.ret.activeIssues, Unknown)
             /\ ActiveListOf(last.ret.allTasks, last.ret.activeTasks, Unknown)

\* C29 as stated: in getProjectStatus and getComponentContext a collected
\* entity is in the active list if and only if its status is exactly active
\* or it has no has_status relation.
C29_ActiveOrNoStatusRelation ==
    ActiveLists(LAMBDA name : NoStatusRelation(graph, name))

\* C29: in getProjectStatus (activeFeatures, activeTasks, activeIssues,
\* upcomingMilestones) and getComponentContext (activeIssues, activeTasks) a
\* collected entity is in the active list if and only if its resolved status
\* is exactly active or it has no resolved status: no has_status relation,
\* or a first has_status relation whose target's name holds nothing after a
\* colon; entities that resolve to inactive or complete are excluded.
C29_ActiveOrUnresolved ==
    ActiveLists(LAMBDA name : ~Truthy(getEntityStatus(graph, name)))

\* getProjectStatus has returned lists that hold an entity for its active
\* status, hold one for its lack of a status and leave two out
C29_Witness ==
    /\ last.op = "getProjectStatus" /\ last.ok
    /\ Len(last.ret.allTasks) >= 1 /\ Len(last.ret.allIssues) >= 1
    /\ getEntityStatus(graph, "T1") = "active"
    /\ Some(last.ret.activeTasks, LAMBDA e : e.name = "T1")
    /\ getEntityStatus(graph, "I1") \in { "inactive", "complete" }
    /\ ~Some(last.ret.activeIssues, LAMBDA e : e.name = "I1")
    /\ NoStatusRelation(graph, "F1")
    /\ Some(last.ret.activeFeatures, LAMBDA e : e.name = "F1")
    /\ getEntityStatus(graph, "M1") = "complete"
    /\ Len(last.ret.allMilestones) = 1
    /\ last.ret.upcomingMilestones = <<>>

\* the entity type that a typed query requires
RequiredType ==
    [getProjectStatus |-> "project", getDecisionHistory |-> "project",
     getComponentContext |-> "component", getMilestoneProgress |-> "milestone"]

\* the error that a query throws for a name it does not find
NotFoundKind ==
    [getProjectStatus |-> "ProjectNotFound", getDecisionHistory |-> "ProjectNotFound",
     getComponentContext |-> "ComponentNotFound", getMilestoneProgress |-> "MilestoneNotFound",
     getRelatedEntities |-> "EntityNotFound"]

\* an entity of the name that the last query needs is in the graph
QueriedEntityFound ==
    Some(graph.entities,
         LAMBDA e : /\ e.name = last.args[1]
                    /\ last.op \in DOMAIN RequiredType => e.entityType = RequiredType[last.op])

\* C30: the typed queries fail with not-found and return no result when no
\* entity of the required type has the given name, also when an entity of
\* another type has it: getProjectStatus and getDecisionHistory require a
\* project, getComponentContext a component, getMilestoneProgress a
\* milestone; getRelatedEntities fails when no entity of any type has the
\* name. With such an entity the queries return a result about it.
C30_TypedQueriesNotFound ==
    last.op \in DOMAIN NotFoundKind
    => IF QueriedEntityFound
       THEN /\ last.ok
            /\ last.op = "getProjectStatus" => last.ret.project.entityType = "project"
            /\ last.op = "getDecisionHistory" => last.ret.project.entityType = "project"
            /\ last.op = "getComponentContext" => last.ret.component.entityType = "component"
            /\ last.op = "getMilestoneProgress" => last.ret.milestone.entityType = "milestone"
            /\ last.op = "getRelatedEntities" => last.ret.entity.name = last.args[1]
       ELSE /\ ~last.ok
            /\ last.ret = Undefined
            /\ last.error = [kind |-> NotFoundKind[last.op], value |-> last.args[1]]

\* a query for a project was refused on the name of a component, and a
\* query for any entity of that name would find it
C30_Witness ==
    /\ last.op \in { "getProjectStatus", "getDecisionHistory" }
    /\ ~last.ok
    /\ last.error.kind = "ProjectNotFound"
    /\ HasEntity(graph, last.args[1])
    /\ getRelatedEntities(graph, last.args[1], <<>>).ok

\* the decision has an observation that starts with 'Date:'
HasDateObservation(decision) == Some(decision.observations, IsDateObservation)

\* C31: getDecisionHistory returns the decisions ordered by descending date
\* parsed from their 'Date:' observation: of two returned decisions with a
\* date the one with the later date comes first, and every decision without
\* a 'Date:' observation comes after every decision that has one.
C31_DecisionsLatestFirst ==
    (last.op = "getDecisionHistory" /\ last.ok)
    => \A i, j \in 1..Len(last.ret.decisions) :
          i < j =>
            /\ (/\ HasDateObservation(last.ret.decisions[i])
                 /\ HasDateObservation(last.ret.decisions[j])
                 /\ DecisionDate(last.ret.decisions[i]) # NaN
                 /\ DecisionDate(last.ret.decisions[j]) # NaN)
               => DecisionDate(last.ret.decisions[i]) >= DecisionDate(last.ret.decisions[j])
            /\ HasDateObservation(last.ret.decisions[j])
               => HasDateObservation(last.ret.decisions[i])

\* the relations of the graph that the last getRelatedEntities call had to
\* report: of a type that the call asked for, and Touching the entity
AskedRelations(Touching(_)) ==
    SelectSeq(graph.relations,
              LAMBDA r : /\ Touching(r)
                         /\ last.args[2] # <<>> => ArrayIncludes(last.args[2], r.relationType))

\* the list holds, in the order of the graph, the given relations, each with
\* the entity that the graph has under the name at its other end
ListsResolved(list, relations, end, Other(_)) ==
    /\ Len(list) = Len(relations)
    /\ \A i \in 1..Len(list) :
          /\ list[i].relation = relations[i]
          /\ list[i][end].name = Other(relations[i])
          /\ Some(graph.entities, LAMBDA e : e = list[i][end])

\* C32 as stated: outgoingRelations holds exactly the relations with from = e
\* (of the asked types), each with its resolved 'to' entity, and
\* incomingRelations exactly the relations with to = e, each with its
\* resolved 'from' entity; a relation whose other endpoint does not exist is
\* in neither list.
C32_OutgoingAndIncoming ==
    (last.op = "getRelatedEntities" /\ last.ok)
    => /\ ListsResolved(last.ret.outgoingRelations,
                        AskedRelations(LAMBDA r : r.from = last.args[1]
                                                  /\ HasEntity(graph, r.to)),
                        "target", LAMBDA r : r.to)
       /\ ListsResolved(last.ret.incomingRelations,
                        AskedRelations(LAMBDA r : r.to = last.args[1]
                                                  /\ HasEntity(graph, r.from)),
                        "source", LAMBDA r : r.from)

\* C32, amended: the lists partition the relations that touch e: a relation
\* from e to e is an outgoing relation and not an incoming one;
\* incomingRelations holds exactly the relations with to = e and from # e.
C32_RelationsPartitioned ==
    (last.op = "getRelatedEntities" /\ last.ok)
    => /\ ListsResolved(last.ret.outgoingRelations,
                        AskedRelations(LAMBDA r : r.from = last.args[1]
                                                  /\ HasEntity(graph, r.to)),
                        "target", LAMBDA r : r.to)
       /\ ListsResolved(last.ret.incomingRelations,
                        AskedRelations(LAMBDA r : r.to = last.args[1]
                                                  /\ r.from # last.args[1]
                                                  /\ HasEntity(graph, r.from)),
                        "source", LAMBDA r : r.from)

\* the project was queried with relation types; it has a relation to
\* itself, which is reported as outgoing, an incoming relation of a type
\* that was not asked for, and a status relation to an entity that does not
\* exist
C32_Witness ==
    /\ last.op = "getRelatedEntities" /\ last.ok
    /\ last.args = << "P1", << "depends_on", "has_status" >> >>
    /\ Len(last.ret.outgoingRelations) = 1
    /\ last.ret.outgoingRelations[1].relation = Relation("P1", "P1", "depends_on")
    /\ last.ret.incomingRelations = <<>>
    /\ Some(graph.relations, LAMBDA r : r = Relation("T1", "P1", "part_of"))
    /\ Some(graph.relations, LAMBDA r : r = Relation("P1", "status:active", "has_status"))
    /\ ~HasEntity(graph, "status:active")

\* the identifiers that the last startsession call reported as recent
ReportedSessions ==
    { last.ret.recentSessions[i].id : i \in 1..Len(last.ret.recentSessions) }

\* the n sessions of the file that were created last
NewestSessions(n) ==
    { sessionKeys[i] : i \in { k \in 1..Len(sessionKeys) : k > Len(sessionKeys) - n } }

\* C33: startsession reports the recent development sessions as the up to 3
\* most recently created sessions of the session log: with more than 3
\* sessions, the 3 newest are the ones reported.
C33_RecentAreNewest ==
    last.op = "startsession" => ReportedSessions = NewestSessions(3)

\* no name occurs twice in the list of entities
DistinctNames(list) ==
    \A i, j \in 1..Len(list) : list[i].name = list[j].name => i = j

\* C34: in the result of getProjectStatus the collections allFeatures,
\* allIssues and allTasks hold no entity twice, whether it is reached
\* directly from the project (possibly by several relations), through a
\* component, or both.
C34_CollectionsDeduplicated ==
    (last.op = "getProjectStatus" /\ last.ok)
    => /\ DistinctNames(last.ret.allFeatures)
       /\ DistinctNames(last.ret.allIssues)
       /\ DistinctNames(last.ret.allTasks)

\* the mapping of a task update, as C35 states it
ExpectedTaskStatus(status) ==
    CASE status \in { "completed", "complete" } -> "complete"
      [] status = "in_progress" -> "active"
      [] OTHER -> "inactive"

\* the mapping of the project update, as C35 states it
ExpectedProjectStatus(status) ==
    CASE status \in { "completed", "complete" } -> "complete"
      [] status \in { "in_progress", "active" } -> "active"
      [] OTHER -> "inactive"

\* a step that is an endsession call of the assembly stage with
\* nextStageNeeded = false on a known session, whether it succeeds or not
CommitAttempt ==
    /\ last'.op = "endsession"
    /\ last'.args.stage = "assembly" /\ ~last'.args.nextStageNeeded
    /\ last'.args.sessionId \in DOMAIN sessionStates

\* the search of the commit finds an entity for the name
FoundByCommit(name) == Len(searchNodes(graph, "name:" \o name).entities) > 0

\* C35: the status that a commit writes for a task update is complete for
\* 'completed' or 'complete', active for 'in_progress' and inactive for every
\* other value ('active' included); for the project update it is complete
\* for 'completed' or 'complete', active for 'in_progress' or 'active' and
\* inactive for every other value. Every status relation that the commit
\* writes points at a legal status.
C35_CommitStatusMapping ==
    [][ CommitAttempt =>
          /\ \A i \in RelationIdx(graph') :
                (/\ graph'.relations[i].relationType = "has_status"
                 /\ ~HasRelation(graph, graph'.relations[i]))
                => /\ \E v \in 1..Len(VALID_STATUS_VALUES) :
                         graph'.relations[i].to = "status:" \o VALID_STATUS_VALUES[v]
                   /\ \/ \E k \in 1..Len(JSONParse(CommitArgs.taskUpdates)) :
                            /\ JSONParse(CommitArgs.taskUpdates)[k].name = graph'.relations[i].from
                            /\ graph'.relations[i].to =
                                  "status:" \o ExpectedTaskStatus(
                                                  JSONParse(CommitArgs.taskUpdates)[k].status)
                      \/ /\ CommitArgs.projectName = graph'.relations[i].from
                         /\ graph'.relations[i].to =
                               "status:" \o ExpectedProjectStatus(CommitArgs.projectStatus)
          /\ \A k \in 1..Len(JSONParse(CommitArgs.taskUpdates)) :
                FoundByCommit(JSONParse(CommitArgs.taskUpdates)[k].name)
                => getEntityStatus(graph', JSONParse(CommitArgs.taskUpdates)[k].name)
                      = ExpectedTaskStatus(JSONParse(CommitArgs.taskUpdates)[k].status)
          /\ (last'.ok /\ FoundByCommit(CommitArgs.projectName))
                => getEntityStatus(graph', CommitArgs.projectName)
                      = ExpectedProjectStatus(CommitArgs.projectStatus)
      ]_vars

\* a commit has set the task, whose update says 'active', to inactive and
\* the project, whose update says 'active' too, to active
C35_Witness ==
    /\ last.op = "endsession" /\ last.ok /\ last.ret.sessionRecorded
    /\ StageStr(FindStage(sessionStates[SessionId], "projectStatus"), "projectStatus", "")
          = "active"
    /\ StageArr(FindStage(sessionStates[SessionId], "taskUpdates"), "taskUpdates")
          = << [name |-> "T1", status |-> "active"] >>
    /\ getEntityStatus(graph, "T1") = "inactive"
    /\ getEntityStatus(graph, "P1") = "active"

\* the elements of the batch of the last call that name no entity of g
MissingOf(g, observations) ==
    SelectSeq(observations, LAMBDA o : ~HasEntity(g, o.entityName))

\* C36: addObservations fails with not-found when an element of the batch
\* names an entity that does not exist, and then nothing of the batch is
\* persisted: the graph is unchanged, also for the existing entities that
\* the batch lists before the missing one. A batch that names existing
\* entities only succeeds.
C36_AddObservationsAllOrNothing ==
    [][ last'.op = "addObservations" =>
          IF MissingOf(graph, last'.args) # <<>>
          THEN /\ ~last'.ok
               /\ last'.error = [kind |-> "EntityNotFound",
                                 value |-> MissingOf(graph, last'.args)[1].entityName]
               /\ graph' = graph
          ELSE last'.ok
      ]_vars

\* a batch was refused whose first element adds an observation that the
\* existing entity T1 does not have, and T1 does not have it now
C36_Witness ==
    /\ last.op = "addObservations" /\ ~last.ok
    /\ Len(last.args) = 2
    /\ last.args[1] = Observation("T1", << "a" >>)
    /\ last.error.value = "X1"
    /\ HasEntity(graph, "T1")
    /\ \A i \in EntityIdx(graph) :
          graph.entities[i].name = "T1" => ~ArrayIncludes(graph.entities[i].observations, "a")

\* the last call is the committing transition: an assembly stage with
\* nextStageNeeded = false
IsCommitCall(params) == params.stage = "assembly" /\ ~params.nextStageNeeded

\* C37: only the committing transition writes the graph: an endsession call
\* that is not an assembly stage with nextStageNeeded = false (another
\* stage, an assembly with nextStageNeeded = true, a revision, a failed
\* call) leaves the persisted graph unchanged and changes at most the log of
\* the session it names.
C37_OnlyCommitWritesGraph ==
    [][ (EndsessionStep /\ ~IsCommitCall(last'.args))
        => /\ graph' = graph
           /\ DOMAIN sessionStates' = DOMAIN sessionStates
           /\ sessionKeys' = sessionKeys
           /\ \A id \in DOMAIN sessionStates :
                 id # last'.args.sessionId => sessionStates'[id] = sessionStates[id]
      ]_vars

\* an assembly with nextStageNeeded = true was stored on a session with
\* recorded achievements, of a focus that is an entity, while another
\* session has records; the graph holds no achievement
C37_Witness ==
    /\ last.op = "endsession" /\ last.ok
    /\ last.args.stage = "assembly" /\ last.args.nextStageNeeded
    /\ last.args.sessionId = SessionId
    /\ FindStage(sessionStates[SessionId], "achievements") # <<>>
    /\ FindStage(sessionStates[SessionId], "assembly") # <<>>
    /\ \E id \in DOMAIN sessionStates : id # SessionId /\ sessionStates[id] # <<>>
    /\ ~Some(graph.entities, LAMBDA e : e.entityType = "decision")

\* the position in the log of its k-th analysis_stage record
StagePosition(log, k) ==
    CHOOSE i \in 1..Len(log) :
        /\ log[i].type = "analysis_stage"
        /\ Len(AnalysisStagesOf(SubSeq(log, 1, i))) = k

\* C38: a revision call changes only the targeted record: every other
\* record of the log of the session (analysis_stage records at other
\* positions, and records of other kinds) keeps its content and its place
\* among the records, and the logs of all other sessions are unchanged. A
\* revision of a stage that was not recorded appends its record.
C38_RevisionChangesOnlyTarget ==
    [][ RevisionStep
        => /\ DOMAIN sessionStates' = DOMAIN sessionStates
           /\ \A id \in DOMAIN sessionStates :
                 id # last'.args.sessionId => sessionStates'[id] = sessionStates[id]
           /\ IF last'.args.revisesStage
                    <= Len(AnalysisStagesOf(sessionStates[last'.args.sessionId]))
              THEN /\ Len(sessionStates'[last'.args.sessionId])
                          = Len(sessionStates[last'.args.sessionId])
                   /\ \A i \in 1..Len(sessionStates[last'.args.sessionId]) :
                         i # StagePosition(sessionStates[last'.args.sessionId],
                                           last'.args.revisesStage)
                         => sessionStates'[last'.args.sessionId][i]
                               = sessionStates[last'.args.sessionId][i]
              ELSE sessionStates'[last'.args.sessionId]
                      = Append(sessionStates[last'.args.sessionId], StoredStage)
      ]_vars

\* the relations of g other than those of type rt that leave entity n, in
\* the order of the file
RelationsBeside(g, n, rt) ==
    SelectSeq(g.relations, LAMBDA r : ~(r.from = n /\ r.relationType = rt))

SetterType(op) == IF op = "setEntityStatus" THEN "has_status" ELSE "has_priority"

\* C39: setEntityStatus(e, v) changes only the has_status relations that
\* leave e: the entities, every relation of another type (the has_priority
\* relations of e among them) and every has_status relation of another
\* entity are unchanged and keep their order; a call with an illegal value
\* fails and leaves the whole graph unchanged. The same holds for
\* setEntityPriority and the has_priority relations.
C39_SettersChangeOnlyOwnRelations ==
    [][ last'.op \in Setters
        => IF last'.ok
           THEN /\ graph'.entities = graph.entities
                /\ RelationsBeside(graph', last'.args[1], SetterType(last'.op))
                      = RelationsBeside(graph, last'.args[1], SetterType(last'.op))
           ELSE /\ ~ArrayIncludes(IF last'.op = "setEntityStatus"
                                  THEN VALID_STATUS_VALUES ELSE VALID_PRIORITY_VALUES,
                                  last'.args[2])
                /\ graph' = graph
      ]_vars

\* C39 witness: setEntityPriority has given the project the priority high
\* in a graph in which the task has a priority and a status and the project
\* has a status and is related to the task
C39_Witness ==
    /\ last.op = "setEntityPriority" /\ last.ok /\ last.args = << "P1", "high" >>
    /\ Outgoing(graph, "P1", "has_priority") # {}
    /\ Outgoing(graph, "T1", "has_priority") # {}
    /\ Outgoing(graph, "T1", "has_status") # {}
    /\ Outgoing(graph, "P1", "has_status") # {}
    /\ Outgoing(graph, "P1", "contains") # {}


\* the number of times record r stands in log
Occurrences(log, r) == Len(SelectSeq(log, LAMBDA item : item = r))

\* the session id is in the file after the step, with all the records the
\* file held for it before
StaysSaved(id) ==
    /\ id \in DOMAIN sessionStates'
    /\ \A i \in 1..Len(sessionStates[id]) :
          Occurrences(sessionStates'[id], sessionStates[id][i])
             >= Occurrences(sessionStates[id], sessionStates[id][i])

\* C40: sessions are never lost: a session identifier that is in the
\* sessions file stays in it with all the records saved for it, at every
\* step of every interleaving of startsession, loadcontext and endsession
\* calls.
C40_SessionsNeverLost ==
    [][ \A id \in DOMAIN sessionStates : StaysSaved(id) ]_vars


=============================================================================
